---- MODULE Spec2Model ----
(***************************************************************************)
(* Model of the pipelinex core: the DAG (DGAGraph: AddVertex, AddEdge,      *)
(* cycleCheck, Traversal), the Pipeline (PipelineImpl: Run, Cancel, Done),  *)
(* the Runtime registry (RuntimeImpl: RunSync, RunAsync, Cancel, Rm,        *)
(* BuildGraph, cleanupCompletedPipelines, StopBackground), the evaluation   *)
(* context, the boolean reading of a rendered template and the local       *)
(* executor.                                                                *)
(*                                                                          *)
(* The specifications share the variables:                                  *)
(*   SpecGraph     a caller builds one graph with AddVertex/AddEdge and     *)
(*                 then calls Traversal on it with a recording callback;    *)
(*   SpecTraversal a caller calls Traversal on a graph built beforehand     *)
(*                 and may cancel the context it gave;                      *)
(*   SpecRuntime   callers submit configs to one Runtime, which builds the  *)
(*                 graph, runs the pipeline and may cancel it;              *)
(*   SpecLifecycle callers of StopBackground;                               *)
(*   SpecRerun     two calls of Run on one Pipeline;                        *)
(*   SpecDone      the caller of RunAsync asks the pipeline for Done();     *)
(*   SpecBuild     BuildGraph on the configs a caller can write;            *)
(*   SpecExecutor  a LocalExecutor, its caller and one call of Transfer;    *)
(*   SpecEval      EvaluationContexts made from one another;                *)
(*   SpecTemplate  EvaluateBool on what a template rendered.                *)
(***************************************************************************)
EXTENDS Integers, Sequences, FiniteSets, TLC

\* ------------------------------------------------------------------ bounds
\* number of AddEdge calls a caller makes on one graph
MaxEdges == 2
\* number of pipeline objects one Runtime creates
MaxPipelines == 2
\* number of pipeline-cancelled events one listener is sent
MaxCalls == 2
\* number of goroutines that call StopBackground
MaxStoppers == 3

\* number of calls of Prepare and Destruction one caller makes on an
\* executor, number of commands it sends, capacity of commandChan
MaxExecCalls == 3
MaxCommands == 2
\* output chunks that one command writes
MaxChunks == 1
ChanCap == 1
\* number of EvaluationContexts made
MaxCtxs == 4
\* number of whitespace characters before and after a rendered text
MaxPad == 1
\* transitions in the Graph text of a config handed to BuildGraph
MaxTransitions == 2

\* ------------------------------------------------------- program constants
\* iterations of the simulated node work in the Run callback
WorkIters == 10

\* ------------------------------------------------------------ value spaces
NodeIds == {"a", "b", "c", "d"}
\* the nodes the caller of SpecGraph builds its graph from
GraphNodes == {"a", "b", "c"}
Slots == 1..MaxPipelines

\* edge expressions: "" is the unconditional edge
ExprUncond == ""
ExprProd == "{{ env == 'prod' }}"
ExprUnclosed == "{{ unclosed"
Exprs == {ExprUncond, ExprProd, ExprUnclosed}

\* values of the parameter env in an evaluation context ("" = not set)
Envs == {"prod", "dev"}

\* any sequence without repetition that enumerates the set S
RECURSIVE Perms(_)
Perms(S) ==
  IF S = {} THEN {<<>>}
  ELSE UNION {{<<x>> \o p : p \in Perms(S \ {x})} : x \in S}

RECURSIVE SeqToSet(_)
SeqToSet(s) == IF s = <<>> THEN {} ELSE {Head(s)} \cup SeqToSet(Tail(s))

RECURSIVE CountIn(_, _)
CountIn(s, x) ==
  IF s = <<>> THEN 0
  ELSE (IF Head(s) = x THEN 1 ELSE 0) + CountIn(Tail(s), x)

\* ------------------------------------------------------------------ errors
ErrWorkdir == "workdir does not exist"
ErrNil == "nil"
ErrHasCycle == "ErrHasCycle"
ErrVertexMissing == "vertex not found"
ErrCanceled == "context canceled"
ErrEval == "failed to evaluate edge condition"
ErrFn == "callback error"
ErrDuplicate == "already exists"
ErrParse == "failed to parse config"
ErrMetadata == "failed to setup metadata"
ErrNotFound == "not found"

\* ---------------------------------------------------------------- DGAGraph
\* NewDGAGraph: empty node map, edge index, adjacency and lookup
NewDGAGraph ==
  [nodes |-> {},
   edges |-> {},
   graph |-> [n \in NodeIds |-> <<>>],
   edgeMap |-> {},
   hasCycle |-> FALSE]

\* NewDGAEdge / NewConditionalEdge: an edge value
NewConditionalEdge(src, dest, expression) ==
  [source |-> src, target |-> dest, expression |-> expression]

NewDGAEdge(src, dest) == NewConditionalEdge(src, dest, ExprUncond)

\* map assignment m[key] = e for a map keyed by the pair (source, target):
\* the edge index is keyed by the id "src->dst", the lookup by src then dst
PutEdge(m, e) ==
  {x \in m : ~(x.source = e.source /\ x.target = e.target)} \cup {e}

\* getIndegrees: for every node 0, then +1 per entry of every adjacency list
\* (an id outside the node map gets an entry only when some list names it)
getIndegrees(g) ==
  [n \in NodeIds |->
     Cardinality(UNION {{<<v, i>> : i \in {j \in 1..Len(g.graph[v]) :
                                             g.graph[v][j] = n}} :
                        v \in NodeIds})]

\* one pass of the inner loop of cycleCheck over the adjacency list adj:
\* decrement, and append to the queue what reaches zero
RECURSIVE cycleRelax(_, _, _)
cycleRelax(adj, indeg, q) ==
  IF adj = <<>> THEN [indeg |-> indeg, q |-> q]
  ELSE LET n == Head(adj)
           d == indeg[n] - 1
       IN cycleRelax(Tail(adj), [indeg EXCEPT ![n] = d],
                     IF d = 0 THEN Append(q, n) ELSE q)

\* the drain loop of cycleCheck: returns the number of vertices drained
RECURSIVE cycleDrain(_, _, _, _)
cycleDrain(g, indeg, q, visited) ==
  IF q = <<>> THEN visited
  ELSE LET r == cycleRelax(g.graph[Head(q)], indeg, Tail(q))
       IN cycleDrain(g, r.indeg, r.q, visited + 1)

\* the keys of the indegree map: the nodes, and whatever a list names
indegKeys(g) ==
  g.nodes \cup UNION {SeqToSet(g.graph[v]) : v \in NodeIds}

\* a variant of cycleCheck that reports a cycle only when nothing drains
cycleCheckNoStart(g) ==
  LET indeg == getIndegrees(g)
      q0 == CHOOSE p \in Perms({v \in indegKeys(g) : indeg[v] = 0}) : TRUE
  IN cycleDrain(g, indeg, q0, 0) = 0

\* cycleCheck: Kahn's pass; a cycle exists iff the drained count differs
\* from the number of nodes.  The count does not depend on the order in
\* which the map iteration fills the initial queue.
cycleCheck(g) ==
  LET indeg == getIndegrees(g)
      q0 == CHOOSE p \in Perms({v \in indegKeys(g) : indeg[v] = 0}) : TRUE
  IN cycleDrain(g, indeg, q0, 0) # Cardinality(g.nodes)

\* AddVertex: (re)inserts the node and resets its adjacency list
AddVertex(g, n) ==
  [g EXCEPT !.nodes = @ \cup {n}, !.graph[n] = <<>>]

\* a variant of AddEdge that looks for the source vertex only
AddEdgeSourceOnly(g, edge) ==
  IF edge.source \notin g.nodes
  THEN [g |-> g, err |-> ErrVertexMissing]
  ELSE LET g1 == [g EXCEPT !.edges = PutEdge(@, edge),
                            !.graph[edge.source] = Append(@, edge.target),
                            !.edgeMap = PutEdge(@, edge)]
           c == cycleCheck(g1)
       IN [g |-> [g1 EXCEPT !.hasCycle = c],
           err |-> IF c THEN ErrHasCycle ELSE ErrNil]

\* AddEdge: returns the graph after the call and the error
AddEdge(g, edge) ==
  IF edge.source \notin g.nodes \/ edge.target \notin g.nodes
  THEN [g |-> g, err |-> ErrVertexMissing]
  ELSE LET g1 == [g EXCEPT !.edges = PutEdge(@, edge),
                            !.graph[edge.source] = Append(@, edge.target),
                            !.edgeMap = PutEdge(@, edge)]
           c == cycleCheck(g1)
       IN [g |-> [g1 EXCEPT !.hasCycle = c],
           err |-> IF c THEN ErrHasCycle ELSE ErrNil]

\* ------------------------------------------------- DGAEdge.Evaluate
\* EvaluateBool of the template engine on the expressions of Exprs, in a
\* namespace whose parameter env is ns.env
EvaluateBool(expression, ns) ==
  IF expression = ExprUnclosed THEN [result |-> FALSE, err |-> ErrEval]
  ELSE [result |-> (ns.env = "prod"), err |-> ErrNil]

\* Evaluate: the empty expression is true, any other goes to the engine
Evaluate(edge, ns) ==
  IF edge.expression = ExprUncond THEN [result |-> TRUE, err |-> ErrNil]
  ELSE EvaluateBool(edge.expression, ns)

\* ------------------------------------ Pongo2TemplateEngine.EvaluateBool
\* a string is the sequence of its characters
Whitespace == {" ", "\t", "\n"}

\* the letters of the words that EvaluateBool knows, lower and upper case
Letters ==
  <<<<"t", "T">>, <<"r", "R">>, <<"u", "U">>, <<"e", "E">>, <<"y", "Y">>,
    <<"s", "S">>, <<"o", "O">>, <<"n", "N">>, <<"f", "F">>, <<"a", "A">>,
    <<"l", "L">>, <<"h", "H">>>>
UpperChar(ch) ==
  IF \E i \in 1..Len(Letters) : Letters[i][1] = ch
  THEN Letters[CHOOSE i \in 1..Len(Letters) : Letters[i][1] = ch][2]
  ELSE ch
LowerChar(ch) ==
  IF \E i \in 1..Len(Letters) : Letters[i][2] = ch
  THEN Letters[CHOOSE i \in 1..Len(Letters) : Letters[i][2] = ch][1]
  ELSE ch

\* strings.ToLower
ToLower(w) == [i \in 1..Len(w) |-> LowerChar(w[i])]

\* strings.TrimSpace
RECURSIVE TrimLeft(_)
TrimLeft(w) ==
  IF w # <<>> /\ Head(w) \in Whitespace THEN TrimLeft(Tail(w)) ELSE w
RECURSIVE TrimRight(_)
TrimRight(w) ==
  IF w # <<>> /\ w[Len(w)] \in Whitespace
  THEN TrimRight(SubSeq(w, 1, Len(w) - 1)) ELSE w
TrimSpace(w) == TrimLeft(TrimRight(w))

\* the words of the switch
TrueWords ==
  {<<"t", "r", "u", "e">>, <<"1">>, <<"y", "e", "s">>, <<"o", "n">>}
FalseWords ==
  {<<"f", "a", "l", "s", "e">>, <<"0">>, <<"n", "o">>, <<"o", "f", "f">>}

\* a variant of ResultBool that compares without strings.ToLower
ResultBoolCaseSensitive(rendered) ==
  LET result == TrimSpace(rendered)
  IN IF result = <<>> THEN FALSE
     ELSE IF result \in TrueWords THEN TRUE
     ELSE IF result \in FalseWords THEN FALSE
     ELSE result # <<>>

\* EvaluateBool from the rendered text on: trimmed, empty is false, the
\* lower-case text is looked up in the switch, anything else is true
ResultBool(rendered) ==
  LET result == TrimSpace(rendered)
      lowerResult == ToLower(result)
  IN IF result = <<>> THEN FALSE
     ELSE IF lowerResult \in TrueWords THEN TRUE
     ELSE IF lowerResult \in FalseWords THEN FALSE
     ELSE result # <<>>

\* ------------------------------------------------- DGAEvaluationContext
\* a Go map is a function on the set of its keys
EmptyMap == <<>>
Put(m, k, v) ==
  [x \in DOMAIN m \cup {k} |-> IF x = k THEN v ELSE m[x]]
PutAll(m, n) ==
  [x \in DOMAIN m \cup DOMAIN n |-> IF x \in DOMAIN n THEN n[x] ELSE m[x]]

\* the nil Node and the nil Pipeline of a context
NoNode == [id |-> "", status |-> "nil"]
NoPipeline == [id |-> "", status |-> "nil", metadata |-> EmptyMap]

\* the heap of contexts: ctxs are the DGAEvaluationContext structs in the
\* order they were made, data is the place in maps of the struct's map
\* all is the last call of All(): its receiver and the map it returned
NoEval == [ctxs |-> <<>>, maps |-> <<>>, all |-> [c |-> 0, ns |-> EmptyMap]]

\* a new struct that gets the map m as a map of its own
newCtx(h, m, node, pipeline) ==
  [h EXCEPT !.ctxs = Append(@, [data |-> Len(h.maps) + 1, node |-> node,
                                pipeline |-> pipeline]),
            !.maps = Append(@, m)]

\* NewEvaluationContext(): an empty data map, no node, no pipeline
NewEvaluationContext(h) == newCtx(h, EmptyMap, NoNode, NoPipeline)

\* Get(key): looks the key up in the data map only
Get(h, c, key) ==
  LET data == h.maps[h.ctxs[c].data]
  IN IF key \in DOMAIN data THEN [val |-> data[key], ok |-> TRUE]
     ELSE [val |-> "", ok |-> FALSE]

\* a variant of All that writes the keys of the node last
AllNodeLast(h, c) ==
  LET x == h.ctxs[c]
      r0 == h.maps[x.data]
      r1 == IF x.pipeline # NoPipeline
            THEN PutAll(Put(Put(r0, "pipelineId", x.pipeline.id),
                            "pipelineStatus", x.pipeline.status),
                        x.pipeline.metadata)
            ELSE r0
      r2 == IF x.node # NoNode
            THEN Put(Put(r1, "nodeId", x.node.id), "nodeStatus",
                     x.node.status)
            ELSE r1
  IN r2

\* All(): a new map filled from the data, then the node, then the
\* pipeline and its metadata, every write replacing what the key held
All(h, c) ==
  LET x == h.ctxs[c]
      r0 == h.maps[x.data]
      r1 == IF x.node # NoNode
            THEN Put(Put(r0, "nodeId", x.node.id), "nodeStatus",
                     x.node.status)
            ELSE r0
      r2 == IF x.pipeline # NoPipeline
            THEN PutAll(Put(Put(r1, "pipelineId", x.pipeline.id),
                            "pipelineStatus", x.pipeline.status),
                        x.pipeline.metadata)
            ELSE r1
  IN r2

\* WithNode, WithPipeline, WithParams: a new struct with a new map that
\* the data of the receiver is copied into
WithNode(h, c, node) ==
  newCtx(h, h.maps[h.ctxs[c].data], node, h.ctxs[c].pipeline)
WithPipeline(h, c, pipeline) ==
  newCtx(h, h.maps[h.ctxs[c].data], h.ctxs[c].node, pipeline)
\* a variant of WithParams that writes the params into the map of the
\* receiver and hands that map to the new struct
WithParamsShared(h, c, params) ==
  [h EXCEPT !.ctxs = Append(@, [h.ctxs[c] EXCEPT !.data = h.ctxs[c].data]),
            !.maps[h.ctxs[c].data] = PutAll(@, params)]

WithParams(h, c, params) ==
  newCtx(h, PutAll(h.maps[h.ctxs[c].data], params), h.ctxs[c].node,
         h.ctxs[c].pipeline)

\* the value the namespace ns gives the parameter env of the conditions,
\* "" when it has none
EnvOf(ns) == IF "env" \in DOMAIN ns THEN ns["env"] ELSE ""

\* ------------------------------------------------------------------- state
VARIABLES
  dga,        \* slot -> DGAGraph (nodes, edges, graph, edgeMap, hasCycle)
  nops,       \* number of AddEdge calls made by the caller
  last,       \* error returned by the caller's last call on the graph if
              \* it was an AddEdge, "none" otherwise
  trav,       \* slot -> the locals of the Traversal call on that graph
  wk,         \* slot -> node -> the worker goroutine running fn(ctx, node)
  calls,      \* slot -> node -> what the callback recorded for the node
  callerCtx,  \* slot -> TRUE when the caller's context has been cancelled
  pipe,       \* slot -> PipelineImpl (status, cancelFunc, doneChan, ...)
  rt,         \* RuntimeImpl (pipelines, pipelineIds, mu)
  gor,        \* the last call of the Runtime that returned, and its result
  stop,       \* caller -> its position in a call of StopBackground
  run,        \* the calls of Run made directly on the Pipeline of slot 1
  ec,         \* the EvaluationContexts made so far and their data maps
  ex,         \* a LocalExecutor, its caller and its call of Transfer
  tpl,        \* a rendered template and what EvaluateBool made of it
  bg          \* a config and whether BuildGraph was called on it

\* the state outside the graph, the pipelines and the Runtime
aux == <<ec, ex, tpl, bg>>

vars == <<dga, nops, last, trav, wk, calls, callerCtx, pipe, rt, gor, stop,
          run, aux>>

\* the locals of a Traversal that has not been called.  startNodes is the
\* part of the queue whose order the map iteration decides: it is fixed
\* when the loop pops it; queue is what the loop appended behind it.
TravIdle ==
  [pc |-> "idle", ret |-> "none", env |-> "dev",
   indeg |-> [n \in NodeIds |-> 0], visited |-> {},
   startNodes |-> {}, queue |-> <<>>,
   fctx |-> FALSE, gctx |-> FALSE, gerr |-> ErrNil, gid |-> 0]

NoWorker == [st |-> "none", i |-> 0, gid |-> 0]

\* what the recording callback has seen of a node: the number of calls,
\* and the nodes whose callback had returned when it was last called
NoCalls == [count |-> 0, after |-> {}]

\* g.Go(func() error { return fn(ctx, dga.nodes[id]) }) for every id in D
Dispatch(w, D, gid) ==
  [n \in NodeIds |->
     IF n \in D THEN [st |-> "ready", i |-> 0, gid |-> gid] ELSE w[n]]

\* a variant of GroupBusy for a g.Wait() that does not wait
GroupBusyNoWait(s) == {}

\* the workers of the group that Traversal is waiting for
GroupBusy(s) ==
  {n \in NodeIds : wk[s][n].gid = trav[s].gid
                   /\ wk[s][n].st \in {"ready", "run", "panicked"}}

\* a variant of visitNeighbors that decrements the in-degree of the target
\* of an edge whose condition is false too
RECURSIVE visitNeighborsDecr(_, _, _, _, _)
visitNeighborsDecr(g, vertexFocus, adj, st, ns) ==
  IF adj = <<>> \/ st.err # ErrNil THEN st
  ELSE
    LET neighbor == Head(adj)
        E == {e \in g.edgeMap : e.source = vertexFocus /\ e.target = neighbor}
        ev == IF E # {} /\ (CHOOSE e \in E : TRUE).expression # ExprUncond
              THEN Evaluate(CHOOSE e \in E : TRUE, ns)
              ELSE [result |-> TRUE, err |-> ErrNil]
        d == st.indeg[neighbor] - 1
    IN IF neighbor \in st.visited
       THEN visitNeighborsDecr(g, vertexFocus, Tail(adj), st, ns)
       ELSE IF ev.err # ErrNil
       THEN [st EXCEPT !.err = ev.err]
       ELSE IF d = 0
       THEN visitNeighborsDecr(g, vertexFocus, Tail(adj),
              [st EXCEPT !.indeg[neighbor] = d,
                         !.visited = @ \cup {neighbor},
                         !.queue = Append(@, neighbor),
                         !.disp = @ \cup {neighbor}], ns)
       ELSE visitNeighborsDecr(g, vertexFocus, Tail(adj),
              [st EXCEPT !.indeg[neighbor] = d], ns)

\* a variant of visitNeighbors that takes a condition that fails to
\* evaluate for a false one
RECURSIVE visitNeighborsSkipErr(_, _, _, _, _)
visitNeighborsSkipErr(g, vertexFocus, adj, st, ns) ==
  IF adj = <<>> THEN st
  ELSE
    LET neighbor == Head(adj)
        E == {e \in g.edgeMap : e.source = vertexFocus /\ e.target = neighbor}
        ev == IF E # {} /\ (CHOOSE e \in E : TRUE).expression # ExprUncond
              THEN Evaluate(CHOOSE e \in E : TRUE, ns)
              ELSE [result |-> TRUE, err |-> ErrNil]
        d == st.indeg[neighbor] - 1
    IN IF neighbor \in st.visited \/ ev.err # ErrNil \/ ~ev.result
       THEN visitNeighborsSkipErr(g, vertexFocus, Tail(adj), st, ns)
       ELSE IF d = 0
       THEN visitNeighborsSkipErr(g, vertexFocus, Tail(adj),
              [st EXCEPT !.indeg[neighbor] = d,
                         !.visited = @ \cup {neighbor},
                         !.queue = Append(@, neighbor),
                         !.disp = @ \cup {neighbor}], ns)
       ELSE visitNeighborsSkipErr(g, vertexFocus, Tail(adj),
              [st EXCEPT !.indeg[neighbor] = d], ns)

\* a variant of visitNeighbors that dispatches a neighbour on its first
\* satisfied edge, whatever is left of its in-degree
RECURSIVE visitNeighborsEager(_, _, _, _, _)
visitNeighborsEager(g, vertexFocus, adj, st, ns) ==
  IF adj = <<>> \/ st.err # ErrNil THEN st
  ELSE
    LET neighbor == Head(adj)
        E == {e \in g.edgeMap : e.source = vertexFocus /\ e.target = neighbor}
        ev == IF E # {} /\ (CHOOSE e \in E : TRUE).expression # ExprUncond
              THEN Evaluate(CHOOSE e \in E : TRUE, ns)
              ELSE [result |-> TRUE, err |-> ErrNil]
        d == st.indeg[neighbor] - 1
    IN IF neighbor \in st.visited
       THEN visitNeighborsEager(g, vertexFocus, Tail(adj), st, ns)
       ELSE IF ev.err # ErrNil
       THEN [st EXCEPT !.err = ev.err]
       ELSE IF ~ev.result
       THEN visitNeighborsEager(g, vertexFocus, Tail(adj), st, ns)
       ELSE visitNeighborsEager(g, vertexFocus, Tail(adj),
              [st EXCEPT !.indeg[neighbor] = d,
                         !.visited = @ \cup {neighbor},
                         !.queue = Append(@, neighbor),
                         !.disp = @ \cup {neighbor}], ns)

\* the inner loop of Traversal over the adjacency list adj of vertexFocus;
\* st carries indeg, visited, queue, the nodes dispatched and the error
RECURSIVE visitNeighbors(_, _, _, _, _)
visitNeighbors(g, vertexFocus, adj, st, ns) ==
  IF adj = <<>> \/ st.err # ErrNil THEN st
  ELSE
    LET neighbor == Head(adj)
        E == {e \in g.edgeMap : e.source = vertexFocus /\ e.target = neighbor}
        ev == IF E # {} /\ (CHOOSE e \in E : TRUE).expression # ExprUncond
              THEN Evaluate(CHOOSE e \in E : TRUE, ns)
              ELSE [result |-> TRUE, err |-> ErrNil]
        d == st.indeg[neighbor] - 1
    IN IF neighbor \in st.visited
       THEN visitNeighbors(g, vertexFocus, Tail(adj), st, ns)
       ELSE IF ev.err # ErrNil
       THEN [st EXCEPT !.err = ev.err]
       ELSE IF ~ev.result
       THEN visitNeighbors(g, vertexFocus, Tail(adj), st, ns)
       ELSE IF d = 0
       THEN visitNeighbors(g, vertexFocus, Tail(adj),
              [st EXCEPT !.indeg[neighbor] = d,
                         !.visited = @ \cup {neighbor},
                         !.queue = Append(@, neighbor),
                         !.disp = @ \cup {neighbor}], ns)
       ELSE visitNeighbors(g, vertexFocus, Tail(adj),
              [st EXCEPT !.indeg[neighbor] = d], ns)

\* a variant of TraversalStart that starts from every node
TraversalStartAll(t, w, g, env) ==
  LET indeg == getIndegrees(g)
      startNodes == g.nodes
  IN IF g.nodes = {} \/ startNodes = {}
     THEN [t |-> [t EXCEPT !.pc = "returned", !.ret = ErrNil, !.env = env],
           w |-> w]
     ELSE [t |-> [t EXCEPT !.pc = "wait0", !.env = env,
                            !.indeg = indeg,
                            !.visited = startNodes,
                            !.startNodes = startNodes],
           w |-> Dispatch(w, startNodes, 0)]

\* Traversal up to the first g.Wait(): empty graph and no start node return
\* nil; otherwise every node of in-degree zero is marked, queued and
\* dispatched in one errgroup
TraversalStart(t, w, g, env) ==
  LET indeg == getIndegrees(g)
      startNodes == {v \in indegKeys(g) : indeg[v] = 0}
  IN IF g.nodes = {} \/ startNodes = {}
     THEN [t |-> [t EXCEPT !.pc = "returned", !.ret = ErrNil, !.env = env],
           w |-> w]
     ELSE [t |-> [t EXCEPT !.pc = "wait0", !.env = env,
                            !.indeg = indeg,
                            !.visited = startNodes,
                            !.startNodes = startNodes],
           w |-> Dispatch(w, startNodes, 0)]

\* the first g.Wait() has returned: it cancels the errgroup context, which
\* is the function's ctx from then on, and an error ends the traversal
TraversalWait0(t) ==
  IF t.gerr # ErrNil
  THEN [t EXCEPT !.pc = "returned", !.ret = t.gerr, !.fctx = TRUE]
  ELSE [t EXCEPT !.pc = "loop", !.fctx = TRUE]

\* the vertices that queue[0] can be
QueueHeads(t) ==
  IF t.startNodes # {} THEN t.startNodes
  ELSE IF t.queue # <<>> THEN {Head(t.queue)}
  ELSE {}

\* one turn of the BFS loop for queue[0] = vertexFocus: the head is popped
\* and its neighbours are visited in a new errgroup
TraversalLoop(t, w, g, vertexFocus) ==
  LET r == visitNeighbors(g, vertexFocus, g.graph[vertexFocus],
             [indeg |-> t.indeg, visited |-> t.visited,
              queue |-> IF t.startNodes # {} THEN t.queue ELSE Tail(t.queue),
              disp |-> {}, err |-> ErrNil],
             [env |-> t.env])
      t1 == [t EXCEPT !.indeg = r.indeg, !.visited = r.visited,
                      !.startNodes = @ \ {vertexFocus},
                      !.queue = r.queue, !.gid = @ + 1, !.gctx = FALSE]
  IN [t |-> IF r.err # ErrNil
            THEN [t1 EXCEPT !.pc = "returned", !.ret = r.err]
            ELSE t1,
      w |-> Dispatch(w, r.disp, t.gid + 1)]

\* the end of the BFS loop: a g.Wait() returned an error, or the queue is
\* empty
TraversalReturn(t) ==
  [t EXCEPT !.pc = "returned", !.ret = t.gerr]

\* a variant of GroupDone that drops the error
GroupDoneDrop(t, gid, err) == t

\* errgroup: a worker's fn has returned err; the first non-nil error of the
\* group is kept and cancels the group's context
GroupDone(t, gid, err) ==
  IF err = ErrNil \/ gid # t.gid \/ t.gerr # ErrNil THEN t
  ELSE IF gid = 0 THEN [t EXCEPT !.gerr = err, !.fctx = TRUE]
  ELSE [t EXCEPT !.gerr = err, !.gctx = TRUE]

\* ------------------------------------------------------------ PipelineImpl
\* events, as notifyEvent and Cancel hand them to the listener
PipelineStart == "pipeline-start"
PipelineFinish == "pipeline-finish"
PipelineNodeStart == "pipeline-node-start"
PipelineNodeFinish == "pipeline-node-finish"
EventPipelineCancelled == "pipeline-cancelled"
StatusCancelled == "CANCELLED"

\* NewPipeline: no status, no listener, no cancel function, nil Done
\* channel.  id and mode are the Runtime's: the id the pipeline is stored
\* under and whether RunSync or RunAsync runs it.  events is the sequence
\* of events handed to the listener, each with the node whose callback
\* notified it ("" outside a callback); held is the set of mutexes that
\* stayed locked during the latest call of the listener's Handle; got is
\* what the call of Done() that the caller of RunAsync made returned; pc is
\* the position of the goroutine that runs the pipeline, err what Run
\* returned.
NewPipeline ==
  [id |-> "", mode |-> "", status |-> "", listener |-> FALSE,
   cancelFunc |-> FALSE, runCancelled |-> FALSE, doneChan |-> "nil",
   events |-> <<>>, held |-> {}, got |-> "none", pc |-> "new", err |-> "none"]

\* notifyEvent(event): reads the listener under the read lock, releases it,
\* and the listener, if there is one, handles the event
notifyEvent(p, event, n) ==
  IF p.listener
  THEN [p EXCEPT !.events = Append(@, <<event, n>>), !.held = {}]
  ELSE p

\* the pipeline p1 that a step made of p, when the step ran with the
\* mutexes M locked: a call of Handle made in the step was made under them
HandleUnder(p, p1, M) ==
  IF Len(p1.events) > Len(p.events) THEN [p1 EXCEPT !.held = @ \cup M]
  ELSE p1

\* PipelineImpl.Cancel: only with a cancel function stored (Run is between
\* its first lines and its deferred function) it cancels the run context,
\* sets the status and has the listener, if there is one, handle
\* pipeline-cancelled, all of it with p.mu locked
Cancel(p) ==
  IF p.cancelFunc
  THEN LET p1 == [p EXCEPT !.runCancelled = TRUE, !.status = StatusCancelled]
       IN IF p.listener
          THEN [p1 EXCEPT !.events = Append(@, <<EventPipelineCancelled, "">>),
                          !.held = {"p.mu"}]
          ELSE p1
  ELSE p

\* what an EvaluationContext reads of a PipelineImpl: Id(), Status() and
\* Metadata(), which returns an empty map
PipelineView(p) == [id |-> p.id, status |-> p.status, metadata |-> EmptyMap]

\* the namespace the conditions of a run are evaluated in: All() of
\* NewEvaluationContext().WithPipeline(p)
RunNamespace(p) ==
  LET h == WithPipeline(NewEvaluationContext(NoEval), 1, PipelineView(p))
  IN All(h, Len(h.ctxs))

\* Run up to the call of Traversal: stores the cancel function, makes the
\* Done channel and notifies pipeline-start
RunBegin(p) ==
  notifyEvent([p EXCEPT !.cancelFunc = TRUE, !.doneChan = "open",
                        !.pc = "running"], PipelineStart, "")

\* a variant of RunEnd whose deferred function does not close the channel
RunEndOpen(p, err) ==
  [notifyEvent(p, PipelineFinish, "")
     EXCEPT !.cancelFunc = FALSE, !.pc = "finished", !.err = err]

\* Run after Traversal returned err: notifies pipeline-finish, and the
\* deferred function closes the Done channel and clears the cancel function
RunEnd(p, err) ==
  [notifyEvent(p, PipelineFinish, "")
     EXCEPT !.doneChan = "closed", !.cancelFunc = FALSE,
            !.pc = "finished", !.err = err]

\* ------------------------------------------------------------- RuntimeImpl
Ids == {"x"}

\* a parsed transition of the Graph text
Tr(from, to, label) == [From |-> from, To |-> to, Label |-> label]

\* the configs the callers submit: yaml tells whether the text parses,
\* Nodes are the keys of the Nodes map, Graph is the list of transitions
\* of the Graph text, GraphErr tells that the state-diagram parser returns
\* an error for the text, Metadate is the type of the metadata store (""
\* when the config has none)
CfgBad ==
  [yaml |-> FALSE, Nodes |-> {}, Graph |-> <<>>, Param |-> EmptyMap,
   Metadate |-> "", GraphErr |-> FALSE]
CfgSolo ==
  [yaml |-> TRUE, Nodes |-> {"a"}, Graph |-> <<>>, Param |-> EmptyMap,
   Metadate |-> "", GraphErr |-> FALSE]
CfgChain ==
  [yaml |-> TRUE, Nodes |-> {"a", "b"},
   Graph |-> <<Tr("[*]", "a", <<>>), Tr("a", "b", <<>>),
               Tr("b", "[*]", <<>>)>>,
   Param |-> EmptyMap, Metadate |-> "", GraphErr |-> FALSE]
CfgJoin ==
  [yaml |-> TRUE, Nodes |-> {"a", "b", "c"},
   Graph |-> <<Tr("a", "c", <<>>), Tr("b", "c", <<>>)>>,
   Param |-> EmptyMap, Metadate |-> "", GraphErr |-> FALSE]
\* a --> b, then a --> c with a label whose condition does not parse
CfgCond ==
  [yaml |-> TRUE, Nodes |-> {"a", "b", "c"},
   Graph |-> <<Tr("a", "b", <<>>),
               Tr("a", "c", <<"ok", "[", ExprUnclosed, "]">>)>>,
   Param |-> EmptyMap, Metadate |-> "", GraphErr |-> FALSE]
\* a --> b and b --> a: the Graph text describes a cycle
CfgCycle ==
  [yaml |-> TRUE, Nodes |-> {"a", "b"},
   Graph |-> <<Tr("a", "b", <<>>), Tr("b", "a", <<>>)>>,
   Param |-> EmptyMap, Metadate |-> "", GraphErr |-> FALSE]
\* a --> b under a condition on the parameter env, which Param sets
CfgParam ==
  [yaml |-> TRUE, Nodes |-> {"a", "b"},
   Graph |-> <<Tr("a", "b", <<"go", "[", ExprProd, "]">>)>>,
   Param |-> [k \in {"env"} |-> "prod"], Metadate |-> "", GraphErr |-> FALSE]
\* one node, and a metadata store of a type the factory does not know
CfgMeta ==
  [yaml |-> TRUE, Nodes |-> {"a"}, Graph |-> <<>>, Param |-> EmptyMap,
   Metadate |-> "bogus", GraphErr |-> FALSE]
Configs ==
  {CfgBad, CfgSolo, CfgChain, CfgJoin, CfgCond, CfgCycle, CfgParam, CfgMeta}

\* NewRuntime: empty registry (0 = no entry), no id admitted, mutex free
\* (mu is the slot of the pipeline whose RunSync holds it), reaper not
\* started, context live, done channel open; made counts the pipelines
\* created
NewRuntime ==
  [pipelines |-> [id \in Ids |-> 0], pipelineIds |-> {}, mu |-> 0,
   background |-> FALSE, made |-> 0, ctxDone |-> FALSE, doneChan |-> "open"]

\* the goroutines that call StopBackground, none of them in a call
Stoppers == 1..MaxStoppers
NoStop == [c \in Stoppers |-> "idle"]

\* the commands a caller sends on commandChan: a string, which is run by
\* the shell, and a value of another type
Commands == {[type |-> "string", v |-> "sleep 30"],
             [type |-> "int", v |-> "7"]}
NoData == [type |-> "none", v |-> ""]

\* NewLocalExecutor() with a channel pair made for one call of Transfer.
\* workdirOk: the workdir is unset or is a directory; log: the calls of
\* the caller that have returned (Transfer: that was made), with their
\* results; pc, cur: the position of Transfer and the value it received;
\* buf, closed: commandChan; ctxDone: the context given to Transfer;
\* sent, started: the commands sent and the commands handed to the shell;
\* cmd: the process of currentCmd; monitor: the goroutine of Transfer
\* that waits for ctx.Done(); taken: the values Transfer has received;
\* readers: the goroutines still reading stdout and stderr of the command;
\* chunks: the chunks the command has written; out: what was sent on
\* resultChan, each value with its kind and the number of its command
NoExec ==
  [workdirOk |-> TRUE, log |-> <<>>, pc |-> "none", cur |-> NoData,
   buf |-> <<>>, closed |-> FALSE, ctxDone |-> FALSE, sent |-> 0,
   started |-> 0, cmd |-> "none", monitor |-> "none",
   taken |-> 0, readers |-> 0, chunks |-> 0, out |-> <<>>]

\* nothing rendered: lead, core and trail are the whitespace before, the
\* text and the whitespace after of what the template renders; called and
\* bool are the call of EvaluateBool and what it returned
NoTpl == [lead |-> <<>>, core |-> <<>>, trail |-> <<>>, called |-> FALSE,
          bool |-> FALSE]
\* no config handed to BuildGraph
NoBuild == [config |-> CfgSolo, built |-> FALSE]
InitAux == ec = NoEval /\ ex = NoExec /\ tpl = NoTpl /\ bg = NoBuild

\* no call of Run made directly on the Pipeline.  pc is the position of
\* each call, ctxDone tells whether cancel() of the context the call made
\* was called, latest is the call whose cancel function and done channel
\* the Pipeline's fields hold
NoRun ==
  [pc |-> [c \in Slots |-> "idle"], ctxDone |-> [c \in Slots |-> FALSE],
   latest |-> 0]

\* ExtractExpression: the text between the first "[" and the first "]"
\* behind it; the label is a sequence of pieces of text
RECURSIVE IndexOf(_, _, _)
IndexOf(label, c, from) ==
  IF from > Len(label) THEN 0
  ELSE IF label[from] = c THEN from
  ELSE IndexOf(label, c, from + 1)

ExtractExpression(label) ==
  LET startIdx == IndexOf(label, "[", 1)
      endIdx == IndexOf(label, "]", startIdx)
  IN IF label = <<>> \/ startIdx = 0 \/ endIdx = 0 \/ endIdx <= startIdx + 1
     THEN ExprUncond
     ELSE label[startIdx + 1]

\* parseGraphEdges: for every transition in order, skip the [*] sentinel
\* and unknown endpoints, add the edge and drop the error of AddEdge
RECURSIVE parseGraphEdges(_, _, _)
parseGraphEdges(graph, nodeMap, stmts) ==
  IF stmts = <<>> THEN graph
  ELSE LET transition == Head(stmts)
           skip == \/ transition.From = "[*]" \/ transition.To = "[*]"
                   \/ transition.From \notin nodeMap
                   \/ transition.To \notin nodeMap
           edge == NewConditionalEdge(transition.From, transition.To,
                                      ExtractExpression(transition.Label))
       IN parseGraphEdges(IF skip THEN graph ELSE AddEdge(graph, edge).g,
                          nodeMap, Tail(stmts))

RECURSIVE addVertices(_, _)
addVertices(graph, N) ==
  IF N = {} THEN graph
  ELSE LET n == CHOOSE x \in N : TRUE
       IN addVertices(AddVertex(graph, n), N \ {n})

\* a variant of BuildGraph that uses the transitions of a text the parser
\* rejects
BuildGraphIgnoreErr(config) ==
  parseGraphEdges(addVertices(NewDGAGraph, config.Nodes), config.Nodes,
                  config.Graph)

\* BuildGraph: one vertex per entry of Nodes, then, unless the Graph text
\* is empty or the parser returns an error for it, the edges
BuildGraph(config) ==
  LET graph == addVertices(NewDGAGraph, config.Nodes)
  IN IF config.Graph = <<>> \/ config.GraphErr THEN graph
     ELSE parseGraphEdges(graph, config.Nodes, config.Graph)

\* a variant of IdUsed that looks the id up in the active registry
IdUsedActive(r, id) == r.pipelines[id] # 0

\* the duplicate check of RunSync and RunAsync
IdUsed(r, id) == id \in r.pipelineIds

\* setupMetadata: no store without a type; the factory makes a store for
\* the types it knows and fails for any other
setupMetadata(config) ==
  IF config.Metadate = "" THEN ErrNil
  ELSE IF config.Metadate \in {"in-config"} THEN ErrNil
  ELSE ErrMetadata

\* what RunSync and RunAsync return before they create the pipeline
AdmissionError(r, id, config) ==
  IF IdUsed(r, id) THEN ErrDuplicate
  ELSE IF ~config.yaml THEN ErrParse
  ELSE IF setupMetadata(config) # ErrNil THEN ErrMetadata
  ELSE ErrNil

\* RunSync and RunAsync storing the pipeline s under id
Admit(r, id, s) ==
  [r EXCEPT !.pipelines[id] = s, !.pipelineIds = @ \cup {id}, !.made = s]

\* a variant of Delete that leaves the entry in the map
DeleteNothing(r, id) == r

\* delete(r.pipelines, id)
Delete(r, id) == [r EXCEPT !.pipelines[id] = 0]

\* what a call of the Runtime returned last
NoCall == [op |-> "none", id |-> "", err |-> "none", p |-> 0]

\* the context a worker was given is done: the caller's context or the run
\* context is cancelled, or the errgroup context of the first group (which
\* every later group derives from), or that of the worker's own group
InputCtxDone(s) == callerCtx[s] \/ pipe[s].runCancelled

\* a variant of WorkerCtxDone for workers that are handed the input context
\* and not the context of an errgroup
WorkerCtxInputOnly(s, n) == InputCtxDone(s)

\* a variant of WorkerCtxDone for callbacks that never look at the context
WorkerCtxNever(s, n) == FALSE

WorkerCtxDone(s, n) ==
  \/ InputCtxDone(s)
  \/ trav[s].fctx
  \/ (wk[s][n].gid > 0 /\ wk[s][n].gid = trav[s].gid /\ trav[s].gctx)

\* --------------------------------------------- SpecGraph: caller's actions
InitGraph ==
  /\ dga = [s \in Slots |-> NewDGAGraph]
  /\ nops = 0
  /\ last = "none"
  /\ trav = [s \in Slots |-> TravIdle]
  /\ wk = [s \in Slots |-> [n \in NodeIds |-> NoWorker]]
  /\ calls = [s \in Slots |-> [n \in NodeIds |-> NoCalls]]
  /\ callerCtx = [s \in Slots |-> FALSE]
  /\ pipe = [s \in Slots |-> NewPipeline]
  /\ rt = NewRuntime
  /\ gor = NoCall
  /\ stop = NoStop
  /\ run = NoRun
  /\ InitAux

\* the caller calls graph.AddVertex(node)
CallAddVertex(n) ==
  /\ trav[1].pc = "idle"
  /\ dga' = [dga EXCEPT ![1] = AddVertex(@, n)]
  /\ last' = "none"
  /\ UNCHANGED <<nops, trav, wk, calls, callerCtx, pipe, rt, gor,
                 stop, run, aux>>

\* the caller calls graph.AddEdge(edge) and keeps the error
CallAddEdge(src, dest, expression) ==
  /\ trav[1].pc = "idle"
  /\ nops < MaxEdges
  /\ LET r == AddEdge(dga[1], NewConditionalEdge(src, dest, expression))
     IN /\ dga' = [dga EXCEPT ![1] = r.g]
        /\ last' = r.err
  /\ nops' = nops + 1
  /\ UNCHANGED <<trav, wk, calls, callerCtx, pipe, rt, gor, stop, run, aux>>

\* the caller calls graph.Traversal(ctx, evalCtx, fn) where evalCtx has the
\* parameter env
CallTraversal(env) ==
  /\ trav[1].pc = "idle"
  /\ LET r == TraversalStart(trav[1], wk[1], dga[1], env)
     IN /\ trav' = [trav EXCEPT ![1] = r.t]
        /\ wk' = [wk EXCEPT ![1] = r.w]
  /\ last' = "none"
  /\ UNCHANGED <<dga, nops, calls, callerCtx, pipe, rt, gor, stop, run, aux>>

\* a worker goroutine enters the recording callback
FnStart(n) ==
  /\ wk[1][n].st = "ready"
  /\ wk' = [wk EXCEPT ![1][n].st = "run"]
  /\ calls' = [calls EXCEPT ![1][n] =
                 [count |-> @.count + 1,
                  after |-> {m \in NodeIds : wk[1][m].st = "done"}]]
  /\ UNCHANGED <<dga, nops, last, trav, callerCtx, pipe, rt, gor,
                 stop, run, aux>>

\* the recording callback returns err (nil or an error of its own)
FnReturn(n, err) ==
  /\ wk[1][n].st = "run"
  /\ wk' = [wk EXCEPT ![1][n].st = "done"]
  /\ trav' = [trav EXCEPT ![1] = GroupDone(@, wk[1][n].gid, err)]
  /\ UNCHANGED <<dga, nops, last, calls, callerCtx, pipe, rt, gor,
                 stop, run, aux>>

\* the first g.Wait() of Traversal returns
StepWait0(s) ==
  /\ trav[s].pc = "wait0"
  /\ GroupBusy(s) = {}
  /\ trav' = [trav EXCEPT ![s] = TraversalWait0(@)]
  /\ UNCHANGED <<dga, nops, last, wk, calls, callerCtx, pipe, rt,
                 gor, stop, run, aux>>

\* the previous g.Wait() returned nil and the BFS loop takes its next turn
StepLoop(s) ==
  /\ trav[s].pc = "loop"
  /\ GroupBusy(s) = {}
  /\ trav[s].gerr = ErrNil
  /\ \E vertexFocus \in QueueHeads(trav[s]) :
       LET r == TraversalLoop(trav[s], wk[s], dga[s], vertexFocus)
       IN /\ trav' = [trav EXCEPT ![s] = r.t]
          /\ wk' = [wk EXCEPT ![s] = r.w]
  /\ UNCHANGED <<dga, nops, last, calls, callerCtx, pipe, rt, gor,
                 stop, run, aux>>

\* the BFS loop ends: g.Wait() returned an error or the queue is empty
StepReturn(s) ==
  /\ trav[s].pc = "loop"
  /\ GroupBusy(s) = {}
  /\ trav[s].gerr # ErrNil \/ QueueHeads(trav[s]) = {}
  /\ trav' = [trav EXCEPT ![s] = TraversalReturn(@)]
  /\ UNCHANGED <<dga, nops, last, wk, calls, callerCtx, pipe, rt,
                 gor, stop, run, aux>>

NextGraph ==
  \/ \E n \in GraphNodes : CallAddVertex(n)
  \/ \E src, dest \in GraphNodes, x \in Exprs : CallAddEdge(src, dest, x)
  \/ \E env \in Envs : CallTraversal(env)
  \/ \E n \in NodeIds : FnStart(n)
  \/ \E n \in NodeIds, err \in {ErrNil, ErrFn} : FnReturn(n, err)
  \/ StepWait0(1)
  \/ StepLoop(1)
  \/ StepReturn(1)

SpecGraph == InitGraph /\ [][NextGraph]_vars

\* ------------------- SpecTraversal: Traversal on a graph built beforehand
\* AddEdge for every edge of the sequence, in order
RECURSIVE addEdges(_, _)
addEdges(graph, E) ==
  IF E = <<>> THEN graph
  ELSE addEdges(AddEdge(graph, Head(E)).g, Tail(E))

\* two chains side by side: a -> c and b -> d
GraphPairs ==
  addEdges(addVertices(NewDGAGraph, {"a", "b", "c", "d"}),
           <<NewDGAEdge("a", "c"), NewDGAEdge("b", "d")>>)

\* the diamond a -> b, a -> c, b -> d, c -> d
GraphDiamond ==
  addEdges(addVertices(NewDGAGraph, {"a", "b", "c", "d"}),
           <<NewDGAEdge("a", "b"), NewDGAEdge("a", "c"),
             NewDGAEdge("b", "d"), NewDGAEdge("c", "d")>>)

\* a -> b -> c with a condition on the second edge
GraphCondChain ==
  addEdges(addVertices(NewDGAGraph, {"a", "b", "c"}),
           <<NewDGAEdge("a", "b"), NewConditionalEdge("b", "c", ExprProd)>>)

Graphs == {GraphPairs, GraphDiamond, GraphCondChain}

InitTraversal ==
  /\ dga \in [Slots -> Graphs]
  /\ \A s \in Slots : s # 1 => dga[s] = GraphPairs
  /\ nops = 0
  /\ last = "none"
  /\ trav = [s \in Slots |-> TravIdle]
  /\ wk = [s \in Slots |-> [n \in NodeIds |-> NoWorker]]
  /\ calls = [s \in Slots |-> [n \in NodeIds |-> NoCalls]]
  /\ callerCtx = [s \in Slots |-> FALSE]
  /\ pipe = [s \in Slots |-> NewPipeline]
  /\ rt = NewRuntime
  /\ gor = NoCall
  /\ stop = NoStop
  /\ run = NoRun
  /\ InitAux

\* the caller cancels the context it gives, or has given, to Traversal
CancelCallerCtx ==
  /\ ~callerCtx[1]
  /\ trav[1].pc # "returned"
  /\ callerCtx' = [callerCtx EXCEPT ![1] = TRUE]
  /\ UNCHANGED <<dga, nops, last, trav, wk, calls, pipe, rt, gor,
                 stop, run, aux>>

\* the callback panics for node n.  g.Go runs fn with no recover of its
\* own, and nothing in Traversal recovers: either the panic ends the
\* process there and then, or the errgroup (in the releases that catch a
\* panic of a worker) keeps it for g.Wait() to raise again
FnPanic(n) ==
  /\ wk[1][n].st = "run"
  /\ \/ /\ wk' = [wk EXCEPT ![1] =
                    [m \in NodeIds |->
                       IF wk[1][m].st \in {"ready", "run"}
                       THEN [wk[1][m] EXCEPT !.st = "dead"] ELSE wk[1][m]]]
        /\ trav' = [trav EXCEPT ![1].pc = "panic"]
     \/ /\ wk' = [wk EXCEPT ![1][n].st = "panicked"]
        /\ trav' = trav
  /\ UNCHANGED <<dga, nops, last, calls, callerCtx, pipe, rt, gor,
                 stop, run, aux>>

\* g.Wait() raises the panic of a worker of its group once the other
\* workers of the group have ended: the panic leaves Traversal
WaitPanics ==
  /\ trav[1].pc \in {"wait0", "loop"}
  /\ \E n \in GroupBusy(1) : wk[1][n].st = "panicked"
  /\ \A n \in GroupBusy(1) : wk[1][n].st = "panicked"
  /\ trav' = [trav EXCEPT ![1].pc = "panic"]
  /\ UNCHANGED <<dga, nops, last, wk, calls, callerCtx, pipe, rt, gor,
                 stop, run, aux>>

NextTraversal ==
  \/ CancelCallerCtx
  \/ \E n \in NodeIds : FnPanic(n)
  \/ WaitPanics
  \/ \E env \in Envs : CallTraversal(env)
  \/ \E n \in NodeIds : FnStart(n)
  \/ \E n \in NodeIds, err \in {ErrNil, ErrFn} : FnReturn(n, err)
  \/ StepWait0(1)
  \/ StepLoop(1)
  \/ StepReturn(1)

SpecTraversal == InitTraversal /\ [][NextTraversal]_vars

\* ------------------------------------------- SpecRuntime: the Runtime
InitRuntime ==
  /\ dga = [s \in Slots |-> NewDGAGraph]
  /\ nops = 0
  /\ last = "none"
  /\ trav = [s \in Slots |-> TravIdle]
  /\ wk = [s \in Slots |-> [n \in NodeIds |-> NoWorker]]
  /\ calls = [s \in Slots |-> [n \in NodeIds |-> NoCalls]]
  /\ callerCtx = [s \in Slots |-> FALSE]
  /\ pipe = [s \in Slots |-> NewPipeline]
  /\ rt = NewRuntime
  /\ gor = NoCall
  /\ stop = NoStop
  /\ run = NoRun
  /\ InitAux

\* a variant of RunRejected that has marked the id as used when it fails
RunRejectedMarks(op, id, config) ==
  /\ rt.mu = 0
  /\ AdmissionError(rt, id, config) # ErrNil
  /\ gor' = [op |-> op, id |-> id, err |-> AdmissionError(rt, id, config),
             p |-> 0]
  /\ rt' = [rt EXCEPT !.pipelineIds = @ \cup {id}]
  /\ UNCHANGED <<dga, nops, last, trav, wk, calls, callerCtx, pipe,
                 stop, run, aux>>

\* RunSync or RunAsync returns an error before it creates a pipeline: the
\* id is in use, the config does not parse, or its metadata store cannot be
\* made
RunRejected(op, id, config) ==
  /\ rt.mu = 0
  /\ AdmissionError(rt, id, config) # ErrNil
  /\ gor' = [op |-> op, id |-> id, err |-> AdmissionError(rt, id, config),
             p |-> 0]
  /\ UNCHANGED <<dga, nops, last, trav, wk, calls, callerCtx, pipe,
                 rt, stop, run, aux>>

\* RunAsync(ctx, id, config, listener) admits the pipeline, spawns the
\* goroutine that will call Run, and returns the pipeline
RunAsync(id, config, listener) ==
  /\ rt.mu = 0
  /\ rt.made < MaxPipelines
  /\ AdmissionError(rt, id, config) = ErrNil
  /\ LET s == rt.made + 1
     IN /\ pipe' = [pipe EXCEPT ![s] =
                      [NewPipeline EXCEPT !.id = id, !.mode = "async",
                                          !.listener = listener,
                                          !.pc = "admitted"]]
        /\ dga' = [dga EXCEPT ![s] = BuildGraph(config)]
        /\ rt' = Admit(rt, id, s)
        /\ gor' = [op |-> "RunAsync", id |-> id, err |-> ErrNil, p |-> s]
  /\ UNCHANGED <<nops, last, trav, wk, calls, callerCtx, stop, run, aux>>

\* RunSync(ctx, id, config, listener) admits the pipeline and goes on to
\* call Run with the Runtime's mutex held
RunSync(id, config, listener) ==
  /\ rt.mu = 0
  /\ rt.made < MaxPipelines
  /\ AdmissionError(rt, id, config) = ErrNil
  /\ LET s == rt.made + 1
     IN /\ pipe' = [pipe EXCEPT ![s] =
                      [NewPipeline EXCEPT !.id = id, !.mode = "sync",
                                          !.listener = listener,
                                          !.pc = "admitted"]]
        /\ dga' = [dga EXCEPT ![s] = BuildGraph(config)]
        /\ rt' = [Admit(rt, id, s) EXCEPT !.mu = s]
        /\ gor' = [op |-> "RunSync", id |-> id, err |-> "pending", p |-> s]
  /\ UNCHANGED <<nops, last, trav, wk, calls, callerCtx, stop, run, aux>>

\* r.mu, when the RunSync that runs pipeline s holds it until Run returns
RunSyncMu(s) == IF rt.mu = s THEN {"r.mu"} ELSE {}

\* pipeline.Run(ctx) from its first line to the first g.Wait() of Traversal
RunEnter(s) ==
  /\ pipe[s].pc = "admitted"
  /\ pipe' = [pipe EXCEPT ![s] = HandleUnder(@, RunBegin(@), RunSyncMu(s))]
  /\ LET r == TraversalStart(trav[s], wk[s], dga[s],
                             EnvOf(RunNamespace(pipe[s])))
     IN /\ trav' = [trav EXCEPT ![s] = r.t]
        /\ wk' = [wk EXCEPT ![s] = r.w]
  /\ UNCHANGED <<dga, nops, last, calls, callerCtx, rt, gor, stop, run, aux>>

\* the callback of Run is entered: with the context done it returns
\* ctx.Err(), otherwise it notifies pipeline-node-start
RunFnEnter(s, n) ==
  /\ wk[s][n].st = "ready"
  /\ IF WorkerCtxDone(s, n)
     THEN /\ wk' = [wk EXCEPT ![s][n].st = "done"]
          /\ trav' = [trav EXCEPT ![s] =
                        GroupDone(@, wk[s][n].gid, ErrCanceled)]
          /\ pipe' = pipe
     ELSE /\ wk' = [wk EXCEPT ![s][n].st = "run"]
          /\ pipe' = [pipe EXCEPT ![s] =
                        HandleUnder(@, notifyEvent(@, PipelineNodeStart, n),
                                    RunSyncMu(s))]
          /\ trav' = trav
  /\ UNCHANGED <<dga, nops, last, calls, callerCtx, rt, gor, stop, run, aux>>

\* one select of the simulated work: with the context done the callback
\* returns ctx.Err(); otherwise the timer fires, and after the last
\* iteration the callback notifies pipeline-node-finish and returns nil
RunFnWork(s, n) ==
  /\ wk[s][n].st = "run"
  /\ wk[s][n].i < WorkIters
  /\ IF WorkerCtxDone(s, n)
     THEN /\ wk' = [wk EXCEPT ![s][n].st = "done"]
          /\ trav' = [trav EXCEPT ![s] =
                        GroupDone(@, wk[s][n].gid, ErrCanceled)]
          /\ pipe' = pipe
     ELSE IF wk[s][n].i + 1 < WorkIters
     THEN /\ wk' = [wk EXCEPT ![s][n].i = @ + 1]
          /\ UNCHANGED <<trav, pipe>>
     ELSE /\ wk' = [wk EXCEPT ![s][n].i = @ + 1, ![s][n].st = "done"]
          /\ pipe' = [pipe EXCEPT ![s] =
                        HandleUnder(@, notifyEvent(@, PipelineNodeFinish, n),
                                    RunSyncMu(s))]
          /\ trav' = trav
  /\ UNCHANGED <<dga, nops, last, calls, callerCtx, rt, gor, stop, run, aux>>

\* Traversal has returned: Run notifies pipeline-finish and returns
RunReturn(s) ==
  /\ pipe[s].pc = "running"
  /\ trav[s].pc = "returned"
  /\ pipe' = [pipe EXCEPT ![s] =
                HandleUnder(@, RunEnd(@, trav[s].ret), RunSyncMu(s))]
  /\ UNCHANGED <<dga, nops, last, trav, wk, calls, callerCtx, rt,
                 gor, stop, run, aux>>

\* the goroutine of RunAsync ends: its deferred function deletes the entry
AsyncExit(s) ==
  /\ pipe[s].pc = "finished"
  /\ pipe[s].mode = "async"
  /\ rt.mu = 0
  /\ rt' = Delete(rt, pipe[s].id)
  /\ pipe' = [pipe EXCEPT ![s].pc = "gone"]
  /\ UNCHANGED <<dga, nops, last, trav, wk, calls, callerCtx, gor,
                 stop, run, aux>>

\* RunSync returns: an error of Run is returned as it is, otherwise the
\* entry is deleted; the mutex is released
RunSyncReturn(s) ==
  /\ pipe[s].pc = "finished"
  /\ pipe[s].mode = "sync"
  /\ rt' = [(IF pipe[s].err # ErrNil THEN rt ELSE Delete(rt, pipe[s].id))
              EXCEPT !.mu = 0]
  /\ pipe' = [pipe EXCEPT ![s].pc = "gone"]
  /\ gor' = [op |-> "RunSync", id |-> pipe[s].id, err |-> pipe[s].err,
             p |-> s]
  /\ UNCHANGED <<dga, nops, last, trav, wk, calls, callerCtx, stop, run, aux>>

\* Runtime.Cancel(ctx, id): locks r.mu, and calls Cancel of the pipeline
\* stored under id, if there is one, before it unlocks
RuntimeCancel(id) ==
  /\ rt.mu = 0
  /\ rt.pipelines[id] # 0
     => CountIn(pipe[rt.pipelines[id]].events,
                <<EventPipelineCancelled, "">>) < MaxCalls
  /\ IF rt.pipelines[id] = 0
     THEN /\ gor' = [op |-> "Cancel", id |-> id, err |-> ErrNotFound, p |-> 0]
          /\ pipe' = pipe
     ELSE /\ gor' = [op |-> "Cancel", id |-> id, err |-> ErrNil,
                     p |-> rt.pipelines[id]]
          /\ pipe' = [pipe EXCEPT ![rt.pipelines[id]] =
                        HandleUnder(@, Cancel(@), {"r.mu"})]
  /\ UNCHANGED <<dga, nops, last, trav, wk, calls, callerCtx, rt,
                 stop, run, aux>>

\* the caller of RunSync or RunAsync cancels the context it passed
CancelParent(s) ==
  /\ pipe[s].pc \in {"admitted", "running"}
  /\ ~callerCtx[s]
  /\ callerCtx' = [callerCtx EXCEPT ![s] = TRUE]
  /\ UNCHANGED <<dga, nops, last, trav, wk, calls, pipe, rt, gor,
                 stop, run, aux>>

\* Runtime.Rm(id)
Rm(id) ==
  /\ rt.mu = 0
  /\ rt.pipelines[id] # 0
  /\ rt' = Delete(rt, id)
  /\ UNCHANGED <<dga, nops, last, trav, wk, calls, callerCtx, pipe, gor, stop,
                 run, aux>>

\* Runtime.StartBackground()
StartBackground ==
  /\ ~rt.background
  /\ rt' = [rt EXCEPT !.background = TRUE]
  /\ UNCHANGED <<dga, nops, last, trav, wk, calls, callerCtx, pipe, gor, stop,
                 run, aux>>

\* a tick of the reaper: cleanupCompletedPipelines deletes every entry
\* whose Done channel is closed
cleanupCompletedPipelines ==
  /\ rt.background
  /\ rt.mu = 0
  /\ \E id \in Ids : rt.pipelines[id] # 0
                     /\ pipe[rt.pipelines[id]].doneChan = "closed"
  /\ rt' = [rt EXCEPT !.pipelines =
              [id \in Ids |->
                 IF @[id] # 0 /\ pipe[@[id]].doneChan = "closed"
                 THEN 0 ELSE @[id]]]
  /\ UNCHANGED <<dga, nops, last, trav, wk, calls, callerCtx, pipe, gor, stop,
                 run, aux>>

\* the steps of the goroutine that runs pipeline s
RunSteps(s) ==
  \/ RunEnter(s)
  \/ \E n \in NodeIds : RunFnEnter(s, n)
  \/ \E n \in NodeIds : RunFnWork(s, n)
  \/ StepWait0(s)
  \/ StepLoop(s)
  \/ StepReturn(s)
  \/ RunReturn(s)
  \/ AsyncExit(s)
  \/ RunSyncReturn(s)

NextRuntime ==
  \/ \E id \in Ids, c \in Configs, op \in {"RunSync", "RunAsync"} :
       RunRejected(op, id, c)
  \/ \E id \in Ids, c \in Configs, l \in BOOLEAN : RunAsync(id, c, l)
  \/ \E id \in Ids, c \in Configs, l \in BOOLEAN : RunSync(id, c, l)
  \/ \E s \in Slots : RunSteps(s)
  \/ \E id \in Ids : RuntimeCancel(id)
  \/ \E s \in Slots : CancelParent(s)
  \/ \E id \in Ids : Rm(id)
  \/ StartBackground
  \/ cleanupCompletedPipelines

SpecRuntime == InitRuntime /\ [][NextRuntime]_vars

\* every goroutine that can take a step eventually does
SpecRuntimeFair ==
  SpecRuntime /\ \A s \in Slots : WF_vars(RunSteps(s))

\* ------------------------ SpecLifecycle: the Runtime's background side
InitLifecycle == InitRuntime

\* StopBackground is called: r.cancel() cancels the Runtime's context
StopCancel(c) ==
  /\ stop[c] \in {"idle", "returned"}
  /\ stop' = [stop EXCEPT ![c] = "select"]
  /\ rt' = [rt EXCEPT !.ctxDone = TRUE]
  /\ UNCHANGED <<dga, nops, last, trav, wk, calls, callerCtx, pipe,
                 gor, run, aux>>

\* the select of StopBackground: a closed done channel is received from
\* and the call returns, otherwise the default case is taken
StopSelect(c) ==
  /\ stop[c] = "select"
  /\ stop' = [stop EXCEPT ![c] = IF rt.doneChan = "closed" THEN "returned"
                                 ELSE "close"]
  /\ UNCHANGED <<dga, nops, last, trav, wk, calls, callerCtx, pipe,
                 rt, gor, run, aux>>

\* close(r.doneChan) in the default case: closing a closed channel panics
StopClose(c) ==
  /\ stop[c] = "close"
  /\ IF rt.doneChan = "closed"
     THEN /\ stop' = [stop EXCEPT ![c] = "panic"]
          /\ rt' = rt
     ELSE /\ stop' = [stop EXCEPT ![c] = "returned"]
          /\ rt' = [rt EXCEPT !.doneChan = "closed"]
  /\ UNCHANGED <<dga, nops, last, trav, wk, calls, callerCtx, pipe,
                 gor, run, aux>>

\* the goroutine of StartBackground finds the Runtime's context done and
\* returns
ReaperExit ==
  /\ rt.background
  /\ rt.ctxDone
  /\ rt' = [rt EXCEPT !.background = FALSE]
  /\ UNCHANGED <<dga, nops, last, trav, wk, calls, callerCtx, pipe, gor,
                 stop, run, aux>>

NextLifecycle ==
  \/ \E c \in Stoppers : StopCancel(c)
  \/ \E c \in Stoppers : StopSelect(c)
  \/ \E c \in Stoppers : StopClose(c)
  \/ StartBackground
  \/ ReaperExit

SpecLifecycle == InitLifecycle /\ [][NextLifecycle]_vars

\* ---------------- SpecRerun: calls of Run on one Pipeline by its holders
\* the Pipeline a caller holds (NewPipeline and SetGraph, or the result of
\* Get): every call of Run traverses the same graph
InitRerun ==
  /\ \E config \in {CfgSolo, CfgChain} :
       dga = [s \in Slots |-> BuildGraph(config)]
  /\ nops = 0
  /\ last = "none"
  /\ trav = [s \in Slots |-> TravIdle]
  /\ wk = [s \in Slots |-> [n \in NodeIds |-> NoWorker]]
  /\ calls = [s \in Slots |-> [n \in NodeIds |-> NoCalls]]
  /\ callerCtx = [s \in Slots |-> FALSE]
  /\ \E listener \in BOOLEAN :
       pipe = [s \in Slots |->
                 IF s = 1 THEN [NewPipeline EXCEPT !.listener = listener,
                                                   !.pc = "admitted"]
                 ELSE NewPipeline]
  /\ rt = NewRuntime
  /\ gor = NoCall
  /\ stop = NoStop
  /\ run = NoRun
  /\ InitAux

\* the context that call c of Run hands to Traversal is done
RunCtxDone(c) == callerCtx[c] \/ run.ctxDone[c]

\* the context the callback of call c is given for node n is done
RerunWorkerCtxDone(c, n) ==
  \/ RunCtxDone(c)
  \/ trav[c].fctx
  \/ (wk[c][n].gid > 0 /\ wk[c][n].gid = trav[c].gid /\ trav[c].gctx)

\* call c of p.Run(ctx), from its first line to the first g.Wait() of
\* Traversal: nothing in Run looks for a run in progress
RerunEnter(c) ==
  /\ run.pc[c] = "idle"
  /\ run' = [run EXCEPT !.pc[c] = "running", !.latest = c]
  /\ pipe' = [pipe EXCEPT ![1] = RunBegin(@)]
  /\ LET r == TraversalStart(trav[c], wk[c], dga[1],
                             EnvOf(RunNamespace(pipe[1])))
     IN /\ trav' = [trav EXCEPT ![c] = r.t]
        /\ wk' = [wk EXCEPT ![c] = r.w]
  /\ UNCHANGED <<dga, nops, last, calls, callerCtx, rt, gor, stop, aux>>

\* the callback of call c is entered for node n
RerunFnEnter(c, n) ==
  /\ run.pc[c] = "running"
  /\ wk[c][n].st = "ready"
  /\ IF RerunWorkerCtxDone(c, n)
     THEN /\ wk' = [wk EXCEPT ![c][n].st = "done"]
          /\ trav' = [trav EXCEPT ![c] =
                        GroupDone(@, wk[c][n].gid, ErrCanceled)]
          /\ pipe' = pipe
     ELSE /\ wk' = [wk EXCEPT ![c][n].st = "run"]
          /\ pipe' = [pipe EXCEPT ![1] = notifyEvent(@, PipelineNodeStart, n)]
          /\ trav' = trav
  /\ UNCHANGED <<dga, nops, last, calls, callerCtx, rt, gor, stop, run, aux>>

\* one select of the simulated work of call c for node n
RerunFnWork(c, n) ==
  /\ run.pc[c] = "running"
  /\ wk[c][n].st = "run"
  /\ wk[c][n].i < WorkIters
  /\ IF RerunWorkerCtxDone(c, n)
     THEN /\ wk' = [wk EXCEPT ![c][n].st = "done"]
          /\ trav' = [trav EXCEPT ![c] =
                        GroupDone(@, wk[c][n].gid, ErrCanceled)]
          /\ pipe' = pipe
     ELSE IF wk[c][n].i + 1 < WorkIters
     THEN /\ wk' = [wk EXCEPT ![c][n].i = @ + 1]
          /\ UNCHANGED <<trav, pipe>>
     ELSE /\ wk' = [wk EXCEPT ![c][n].i = @ + 1, ![c][n].st = "done"]
          /\ pipe' = [pipe EXCEPT ![1] =
                        notifyEvent(@, PipelineNodeFinish, n)]
          /\ trav' = trav
  /\ UNCHANGED <<dga, nops, last, calls, callerCtx, rt, gor, stop, run, aux>>

\* Traversal of call c has returned: Run notifies pipeline-finish, and its
\* deferred function closes the channel this call made and clears the
\* cancel function, whichever call stored it
RerunReturn(c) ==
  /\ run.pc[c] = "running"
  /\ trav[c].pc = "returned"
  /\ run' = [run EXCEPT !.pc[c] = "returned"]
  /\ pipe' = [pipe EXCEPT ![1] =
                [RunEnd(@, trav[c].ret)
                   EXCEPT !.doneChan = IF run.latest = c THEN "closed"
                                       ELSE pipe[1].doneChan,
                          !.pc = IF \E d \in Slots \ {c} :
                                      run.pc[d] = "running"
                                 THEN "running" ELSE "finished"]]
  /\ UNCHANGED <<dga, nops, last, trav, wk, calls, callerCtx, rt,
                 gor, stop, aux>>

\* p.Cancel(): the cancel function the Pipeline holds is that of the
\* latest call of Run
RerunCancel ==
  /\ CountIn(pipe[1].events, <<EventPipelineCancelled, "">>) < MaxCalls
  /\ pipe' = [pipe EXCEPT ![1] = Cancel(@)]
  /\ run' = IF pipe[1].cancelFunc
            THEN [run EXCEPT !.ctxDone[run.latest] = TRUE]
            ELSE run
  /\ UNCHANGED <<dga, nops, last, trav, wk, calls, callerCtx, rt,
                 gor, stop, aux>>

NextRerun ==
  \/ \E c \in Slots : RerunEnter(c)
  \/ \E c \in Slots, n \in NodeIds : RerunFnEnter(c, n)
  \/ \E c \in Slots, n \in NodeIds : RerunFnWork(c, n)
  \/ \E c \in Slots : StepWait0(c)
  \/ \E c \in Slots : StepLoop(c)
  \/ \E c \in Slots : StepReturn(c)
  \/ \E c \in Slots : RerunReturn(c)
  \/ RerunCancel

SpecRerun == InitRerun /\ [][NextRerun]_vars

\* --------------------------- SpecExecutor: a LocalExecutor and its caller
InitExecutor ==
  /\ dga = [s \in Slots |-> NewDGAGraph]
  /\ nops = 0
  /\ last = "none"
  /\ trav = [s \in Slots |-> TravIdle]
  /\ wk = [s \in Slots |-> [n \in NodeIds |-> NoWorker]]
  /\ calls = [s \in Slots |-> [n \in NodeIds |-> NoCalls]]
  /\ callerCtx = [s \in Slots |-> FALSE]
  /\ pipe = [s \in Slots |-> NewPipeline]
  /\ rt = NewRuntime
  /\ gor = NoCall
  /\ stop = NoStop
  /\ run = NoRun
  /\ ec = NoEval
  /\ tpl = NoTpl
  /\ bg = NoBuild
  /\ \E ok \in BOOLEAN : ex = [NoExec EXCEPT !.workdirOk = ok]

\* what no action of the executor changes
ExecFrame ==
  UNCHANGED <<dga, nops, last, trav, wk, calls, callerCtx, pipe, rt, gor,
              stop, run, ec, tpl, bg>>

\* killCurrentProcess: a running process of currentCmd is signalled
killCurrentProcess(x) ==
  IF x.cmd = "running" THEN [x EXCEPT !.cmd = "signalled"] ELSE x

\* Prepare(ctx): fails when the workdir is set and is not a directory
Prepare ==
  /\ Len(ex.log) < MaxExecCalls
  /\ ex' = [ex EXCEPT !.log = Append(@, <<"Prepare",
                         IF ex.workdirOk THEN ErrNil ELSE ErrWorkdir>>)]
  /\ ExecFrame

\* Destruction(ctx): kills the current process and returns nil
Destruction ==
  /\ Len(ex.log) < MaxExecCalls
  /\ ex' = [killCurrentProcess(ex)
              EXCEPT !.log = Append(@, <<"Destruction", ErrNil>>)]
  /\ ExecFrame

\* Transfer(ctx, resultChan, commandChan) is called in a goroutine: it
\* starts the goroutine that waits for ctx.Done() and enters its loop
TransferCall ==
  /\ ex.pc = "none"
  /\ ex' = [ex EXCEPT !.pc = "recv", !.monitor = "waiting",
                      !.log = Append(@, <<"Transfer", ErrNil>>)]
  /\ ExecFrame

\* the caller sends a command, closes commandChan, cancels the context
Send(data) ==
  /\ ~ex.closed
  /\ ex.sent < MaxCommands
  /\ Len(ex.buf) < ChanCap
  /\ ex' = [ex EXCEPT !.buf = Append(@, data), !.sent = @ + 1]
  /\ ExecFrame

CloseCommandChan ==
  /\ ~ex.closed
  /\ ex' = [ex EXCEPT !.closed = TRUE]
  /\ ExecFrame

CancelExecCtx ==
  /\ ~ex.ctxDone
  /\ ex' = [ex EXCEPT !.ctxDone = TRUE]
  /\ ExecFrame

\* `for data := range commandChan`: receives the next value, or ends the
\* loop when the channel is closed and empty; it blocks otherwise
TransferRecv ==
  /\ ex.pc = "recv"
  /\ \/ /\ ex.buf # <<>>
        /\ ex' = [ex EXCEPT !.pc = "check", !.cur = Head(ex.buf),
                            !.buf = Tail(@), !.taken = @ + 1]
     \/ /\ ex.buf = <<>>
        /\ ex.closed
        /\ ex' = [ex EXCEPT !.pc = "returned"]
  /\ ExecFrame

\* a value sent on resultChan for the command Transfer received last
Result(x, kind) ==
  [x EXCEPT !.out = Append(@, [kind |-> kind, cmd |-> x.taken])]

\* the select on execCtx.Done() (done exactly when ctx is: cancel is
\* called only after ctx.Done() or when Transfer returns), then the type
\* switch: a string is handed to the shell and two goroutines start to
\* read its stdout and stderr, another value is answered with an error on
\* resultChan
TransferCheck ==
  /\ ex.pc = "check"
  /\ ex' = IF ex.ctxDone THEN [ex EXCEPT !.pc = "returned", !.cur = NoData]
           ELSE IF ex.cur.type = "string"
           THEN [ex EXCEPT !.pc = "exec", !.cmd = "running",
                           !.started = @ + 1, !.readers = 2, !.chunks = 0]
           ELSE [Result(ex, "error") EXCEPT !.pc = "recv", !.cur = NoData]
  /\ ExecFrame

\* streamOutput: a reader has read a chunk and the callback sends it
StreamChunk ==
  /\ ex.readers > 0
  /\ ex.chunks < MaxChunks
  /\ ex' = [Result(ex, "chunk") EXCEPT !.chunks = @ + 1]
  /\ ExecFrame

\* streamOutput: a reader meets the end of its pipe (the command ended by
\* itself, killed by its context or signalled) and its goroutine ends
StreamEOF ==
  /\ ex.readers > 0
  /\ ex' = [ex EXCEPT !.readers = @ - 1]
  /\ ExecFrame

\* a variant of TransferExecDone that does not wait for the readers
TransferExecDoneNoWait ==
  /\ ex.pc = "exec"
  /\ ex' = [Result(ex, "result")
              EXCEPT !.pc = "recv", !.cur = NoData, !.cmd = "none"]
  /\ ExecFrame

\* wg.Wait() and cmd.Wait() have returned: executeCommandStreaming sends
\* the StepResult of the command and returns
TransferExecDone ==
  /\ ex.pc = "exec"
  /\ ex.readers = 0
  /\ ex' = [Result(ex, "result")
              EXCEPT !.pc = "recv", !.cur = NoData, !.cmd = "none"]
  /\ ExecFrame

\* the goroutine that waits for ctx.Done(): cancel(), killCurrentProcess()
TransferMonitor ==
  /\ ex.monitor = "waiting"
  /\ ex.ctxDone
  /\ ex' = [killCurrentProcess(ex) EXCEPT !.monitor = "done"]
  /\ ExecFrame

TransferSteps ==
  \/ TransferRecv
  \/ TransferCheck
  \/ StreamChunk
  \/ StreamEOF
  \/ TransferExecDone
  \/ TransferMonitor

NextExecutor ==
  \/ Prepare
  \/ Destruction
  \/ TransferCall
  \/ \E data \in Commands : Send(data)
  \/ CloseCommandChan
  \/ CancelExecCtx
  \/ TransferRecv
  \/ TransferCheck
  \/ StreamChunk
  \/ StreamEOF
  \/ TransferExecDone
  \/ TransferMonitor

SpecExecutor == InitExecutor /\ [][NextExecutor]_vars

\* the goroutines of Transfer are scheduled; the caller owes nothing
SpecExecutorFair == SpecExecutor /\ WF_vars(TransferSteps)

\* ------------------------------ SpecEval: EvaluationContexts and callers
\* the keys a user map or a Metadata holds: one of its own and two that
\* the node and the pipeline also write; the values tell the maps apart
ParamKeys == {"env", "nodeId", "pipelineId"}
KeySets == {{}, {"env"}, ParamKeys}
ParamMaps == UNION {[D -> {"u"}] : D \in KeySets}
MetaMaps == UNION {[D -> {"m"}] : D \in KeySets}
EvalNodes == {[id |-> "n1", status |-> "RUNNING"]}
EvalPipelines ==
  {[id |-> "p1", status |-> "RUNNING", metadata |-> md] : md \in MetaMaps}
AllKeys == ParamKeys \cup {"nodeStatus", "pipelineStatus"}

InitEval ==
  /\ dga = [s \in Slots |-> NewDGAGraph]
  /\ nops = 0
  /\ last = "none"
  /\ trav = [s \in Slots |-> TravIdle]
  /\ wk = [s \in Slots |-> [n \in NodeIds |-> NoWorker]]
  /\ calls = [s \in Slots |-> [n \in NodeIds |-> NoCalls]]
  /\ callerCtx = [s \in Slots |-> FALSE]
  /\ pipe = [s \in Slots |-> NewPipeline]
  /\ rt = NewRuntime
  /\ gor = NoCall
  /\ stop = NoStop
  /\ run = NoRun
  /\ ex = NoExec
  /\ tpl = NoTpl
  /\ bg = NoBuild
  /\ ec = NewEvaluationContext(NoEval)

\* what no call on an EvaluationContext changes
EvalFrame ==
  UNCHANGED <<dga, nops, last, trav, wk, calls, callerCtx, pipe, rt, gor,
              stop, run, ex, tpl, bg>>

\* the contexts made so far
Ctxs == 1..Len(ec.ctxs)

CallNewEvaluationContext ==
  /\ Len(ec.ctxs) < MaxCtxs
  /\ ec' = NewEvaluationContext(ec)
  /\ EvalFrame

CallWithNode(c, node) ==
  /\ Len(ec.ctxs) < MaxCtxs
  /\ ec' = WithNode(ec, c, node)
  /\ EvalFrame

CallWithPipeline(c, pipeline) ==
  /\ Len(ec.ctxs) < MaxCtxs
  /\ ec' = WithPipeline(ec, c, pipeline)
  /\ EvalFrame

CallWithParams(c, params) ==
  /\ Len(ec.ctxs) < MaxCtxs
  /\ ec' = WithParams(ec, c, params)
  /\ EvalFrame

CallAll(c) ==
  /\ ec' = [ec EXCEPT !.all = [c |-> c, ns |-> All(ec, c)]]
  /\ EvalFrame

NextEval ==
  \/ CallNewEvaluationContext
  \/ \E c \in Ctxs, node \in EvalNodes : CallWithNode(c, node)
  \/ \E c \in Ctxs, pipeline \in EvalPipelines : CallWithPipeline(c, pipeline)
  \/ \E c \in Ctxs, params \in ParamMaps : CallWithParams(c, params)
  \/ \E c \in Ctxs : CallAll(c)

SpecEval == InitEval /\ [][NextEval]_vars

\* --------------------------- SpecTemplate: EvaluateBool on rendered text
\* every spelling of the word w in lower and upper case
Spellings(w) ==
  {[i \in 1..Len(w) |-> IF i \in U THEN UpperChar(w[i]) ELSE w[i]] :
     U \in SUBSET (1..Len(w))}

\* texts that are none of the words
OtherTexts ==
  {<<>>, <<"h", "e", "l", "l", "o">>, <<"2">>, <<"t", "r", "u">>,
   <<"o", " ", "n">>, <<"n", "o", "n", "e">>, <<"1", "0">>}

\* the texts a template renders, without the whitespace around them
Cores == UNION {Spellings(w) : w \in TrueWords \cup FalseWords}
         \cup OtherTexts

\* the runs of whitespace before and after the text
Pads == UNION {[1..k -> Whitespace] : k \in 0..MaxPad}

InitTemplate ==
  /\ dga = [s \in Slots |-> NewDGAGraph]
  /\ nops = 0
  /\ last = "none"
  /\ trav = [s \in Slots |-> TravIdle]
  /\ wk = [s \in Slots |-> [n \in NodeIds |-> NoWorker]]
  /\ calls = [s \in Slots |-> [n \in NodeIds |-> NoCalls]]
  /\ callerCtx = [s \in Slots |-> FALSE]
  /\ pipe = [s \in Slots |-> NewPipeline]
  /\ rt = NewRuntime
  /\ gor = NoCall
  /\ stop = NoStop
  /\ run = NoRun
  /\ ec = NoEval
  /\ ex = NoExec
  /\ bg = NoBuild
  /\ \E lead \in Pads, core \in Cores, trail \in Pads :
       tpl = [NoTpl EXCEPT !.lead = lead, !.core = core, !.trail = trail]

\* the text template.Execute returned
Rendered(t) == t.lead \o t.core \o t.trail

\* EvaluateBool(expression, ctx) for an expression that renders without
\* an error
CallEvaluateBool ==
  /\ ~tpl.called
  /\ tpl' = [tpl EXCEPT !.called = TRUE, !.bool = ResultBool(Rendered(tpl))]
  /\ UNCHANGED <<dga, nops, last, trav, wk, calls, callerCtx, pipe, rt, gor,
                 stop, run, ec, ex, bg>>

NextTemplate == CallEvaluateBool

SpecTemplate == InitTemplate /\ [][NextTemplate]_vars

\* ------------------------- SpecBuild: BuildGraph on the callers' configs
\* the endpoints a transition of the Graph text can name
Endpoints == {"a", "b", "[*]"}

\* the labels of a transition: none, or a text with a condition in brackets
Labels == {<<>>, <<"go", "[", ExprProd, "]">>}

Transitions ==
  {Tr(from, to, label) : from \in Endpoints, to \in Endpoints,
                         label \in Labels}

\* the lists of at most MaxTransitions transitions
TransitionLists ==
  UNION {[1..k -> Transitions] : k \in 0..MaxTransitions}

\* the configs of SpecBuild: they parse as YAML, their Nodes are any of a
\* and b, and the parser accepts or rejects their Graph text
BuildConfigs ==
  {[yaml |-> TRUE, Nodes |-> N, Graph |-> G, Param |-> EmptyMap,
    Metadate |-> "", GraphErr |-> e] :
     N \in SUBSET {"a", "b"}, G \in TransitionLists, e \in BOOLEAN}

InitBuild ==
  /\ dga = [s \in Slots |-> NewDGAGraph]
  /\ nops = 0
  /\ last = "none"
  /\ trav = [s \in Slots |-> TravIdle]
  /\ wk = [s \in Slots |-> [n \in NodeIds |-> NoWorker]]
  /\ calls = [s \in Slots |-> [n \in NodeIds |-> NoCalls]]
  /\ callerCtx = [s \in Slots |-> FALSE]
  /\ pipe = [s \in Slots |-> NewPipeline]
  /\ rt = NewRuntime
  /\ gor = NoCall
  /\ stop = NoStop
  /\ run = NoRun
  /\ ec = NoEval
  /\ ex = NoExec
  /\ tpl = NoTpl
  /\ \E c \in BuildConfigs : bg = [config |-> c, built |-> FALSE]

\* graph := r.BuildGraph(config)
CallBuildGraph ==
  /\ ~bg.built
  /\ dga' = [dga EXCEPT ![1] = BuildGraph(bg.config)]
  /\ bg' = [bg EXCEPT !.built = TRUE]
  /\ UNCHANGED <<nops, last, trav, wk, calls, callerCtx, pipe, rt, gor,
                 stop, run, ec, ex, tpl>>

NextBuild == CallBuildGraph

SpecBuild == InitBuild /\ [][NextBuild]_vars

\* ------------------- SpecDone: the caller of RunAsync asks for Done()
InitDone == InitRuntime

\* what a call of Done() on pipeline s can return: the nil channel before
\* Run has stored the channel it makes, that channel ("chan") once Run has
\* returned, and either of them while Run is going on, as Run stores the
\* channel without the lock that Done() reads it under
DoneResults(s) ==
  IF pipe[s].pc = "admitted" THEN {"nil"}
  ELSE IF pipe[s].pc = "running" THEN {"nil", "chan"}
  ELSE {"chan"}

\* the caller of RunAsync calls Done() on the pipeline it was returned
CallDone(s, v) ==
  /\ pipe[s].pc # "new"
  /\ pipe[s].mode = "async"
  /\ pipe[s].got = "none"
  /\ v \in DoneResults(s)
  /\ pipe' = [pipe EXCEPT ![s].got = v]
  /\ UNCHANGED <<dga, nops, last, trav, wk, calls, callerCtx, rt, gor,
                 stop, run, aux>>

\* the steps of the goroutine that RunAsync started for pipeline s
AsyncSteps(s) ==
  \/ RunEnter(s)
  \/ \E n \in NodeIds : RunFnEnter(s, n)
  \/ \E n \in NodeIds : RunFnWork(s, n)
  \/ StepWait0(s)
  \/ StepLoop(s)
  \/ StepReturn(s)
  \/ RunReturn(s)
  \/ AsyncExit(s)

NextDone ==
  \/ \E id \in Ids, c \in {CfgSolo, CfgChain}, l \in BOOLEAN :
       RunAsync(id, c, l)
  \/ \E s \in Slots : AsyncSteps(s)
  \/ \E s \in Slots, v \in {"nil", "chan"} : CallDone(s, v)
  \/ \E id \in Ids : RuntimeCancel(id)
  \/ \E id \in Ids : Rm(id)

SpecDone == InitDone /\ [][NextDone]_vars

\* the goroutine of a run takes a step whenever it can
SpecDoneFair == SpecDone /\ \A s \in Slots : WF_vars(AsyncSteps(s))

\* ------------------------------------------------ properties of the graph
\* the pairs (u, v) with v in the adjacency list of u
AdjEdges(g) == {e \in NodeIds \X NodeIds : CountIn(g.graph[e[1]], e[2]) > 0}

\* the nodes reachable from the set S in one to k steps of the adjacency
RECURSIVE ReachIn(_, _, _)
ReachIn(g, S, k) ==
  LET N == UNION {{e[2] : e \in {x \in AdjEdges(g) : x[1] = u}} : u \in S}
  IN IF k = 0 THEN {} ELSE N \cup ReachIn(g, N, k - 1)

\* the adjacency has a directed cycle: some node reaches itself
HasDirectedCycle(g) ==
  \E n \in NodeIds : n \in ReachIn(g, {n}, Cardinality(NodeIds))

\* the condition of the edge the lookup holds for (u, v) in the namespace
\* with parameter env: "true", "false" or "error"
CondOf(g, u, v, env) ==
  LET E == {e \in g.edgeMap : e.source = u /\ e.target = v}
      r == Evaluate(CHOOSE e \in E : TRUE, [env |-> env])
  IN IF E = {} THEN "true"
     ELSE IF r.err # ErrNil THEN "error"
     ELSE IF r.result THEN "true" ELSE "false"

AllSatisfied(g, env) ==
  \A e \in AdjEdges(g) : CondOf(g, e[1], e[2], env) = "true"

\* the callback has been called for n
Visited(s, n) == calls[s][n].count > 0

\* C1: on an acyclic graph whose edges are all satisfied, a Traversal whose
\* callback never returned an error has, when it returns, called the
\* callback exactly once for every vertex, for u (to its return) before v
\* for every edge (u, v), and returns nil
C1_TopologicalVisit ==
  (/\ trav[1].pc = "returned"
   /\ ~HasDirectedCycle(dga[1])
   /\ AllSatisfied(dga[1], trav[1].env)
   /\ trav[1].gerr = ErrNil)
  => /\ trav[1].ret = ErrNil
     /\ \A n \in dga[1].nodes :
          calls[1][n].count = 1 /\ wk[1][n].st = "done"
     /\ \A e \in AdjEdges(dga[1]) : e[1] \in calls[1][e[2]].after

C1_Witness ==
  /\ trav[1].pc = "returned"
  /\ trav[1].ret = ErrNil
  /\ trav[1].gerr = ErrNil
  /\ dga[1].nodes = GraphNodes
  /\ Cardinality(AdjEdges(dga[1])) = 2
  /\ ~HasDirectedCycle(dga[1])
  /\ AllSatisfied(dga[1], trav[1].env)
  /\ \A n \in GraphNodes : calls[1][n].count = 1

\* C3: whenever the callback of v has been called, the callback of every u
\* with an edge (u, v) had returned before, and so had every callback of an
\* earlier group
C3_ParentsReturnFirst ==
  \A v \in NodeIds :
    Visited(1, v) =>
      /\ \A u \in NodeIds :
           <<u, v>> \in AdjEdges(dga[1]) => u \in calls[1][v].after
      /\ \A x \in NodeIds :
           (Visited(1, x) /\ wk[1][x].gid < wk[1][v].gid)
             => x \in calls[1][v].after

C3_Witness ==
  \E u, v \in NodeIds :
    /\ <<u, v>> \in AdjEdges(dga[1])
    /\ Visited(1, u) /\ Visited(1, v)
    /\ wk[1][v].gid > 0
    /\ \E x \in NodeIds \ {u, v} : wk[1][x].st = "run"

C5_CycleExactly ==
  (last \in {ErrNil, ErrHasCycle})
  => (last = ErrHasCycle <=> HasDirectedCycle(dga[1]))

C5_Witness ==
  /\ last = ErrHasCycle
  /\ \E u, v \in NodeIds :
       u # v /\ {<<u, v>>, <<v, u>>} \subseteq AdjEdges(dga[1])

\* C6: a call of AddEdge that returns ErrHasCycle leaves the adjacency
\* lists, the edge index and the lookup as they were
C6_CycleLeavesEdges ==
  [][(nops' = nops + 1 /\ last' = ErrHasCycle)
     => /\ dga'[1].graph = dga[1].graph
        /\ dga'[1].edges = dga[1].edges
        /\ dga'[1].edgeMap = dga[1].edgeMap]_vars

\* ---------------------------------------------- properties of the Runtime
\* the goroutine of pipeline s has left Run
Returned(s) == pipe[s].pc \in {"finished", "gone"}

\* the callback of node n notified pipeline-node-start and, later,
\* pipeline-node-finish
StartThenFinish(s, n) ==
  \E i, j \in 1..Len(pipe[s].events) :
    /\ i < j
    /\ pipe[s].events[i] = <<PipelineNodeStart, n>>
    /\ pipe[s].events[j] = <<PipelineNodeFinish, n>>

\* the graph of pipeline s is acyclic, has only unconditional edges and has
\* more than one layer
LayeredUnconditional(s) ==
  /\ dga[s].edges # {}
  /\ ~HasDirectedCycle(dga[s])
  /\ \A e \in dga[s].edgeMap : e.expression = ExprUncond

\* C2: once Run has returned for a pipeline whose graph is acyclic with only
\* unconditional edges and more than one layer, with a context that was
\* never cancelled and with no Cancel call, it has returned nil and its
\* listener has handled, for every node, pipeline-node-start followed by
\* pipeline-node-finish
C2_RunCompletesLayers ==
  \A s \in Slots :
    (/\ Returned(s)
     /\ ~callerCtx[s]
     /\ ~pipe[s].runCancelled
     /\ LayeredUnconditional(s))
    => /\ pipe[s].err = ErrNil
       /\ pipe[s].listener => \A n \in dga[s].nodes : StartThenFinish(s, n)

\* the ids pipeline objects were created for
AdmittedSlots(id) == {s \in Slots : pipe[s].pc # "new" /\ pipe[s].id = id}

\* C7: no two pipelines are ever admitted under one id, and a RunSync or
\* RunAsync call that was refused for an id admitted before was refused
\* with the duplicate-id error, whatever became of the first pipeline
C7_AdmittedOnce ==
  \A id \in Ids :
    /\ Cardinality(AdmittedSlots(id)) <= 1
    /\ (/\ AdmittedSlots(id) # {}
        /\ gor.op \in {"RunSync", "RunAsync"}
        /\ gor.id = id
        /\ gor.p = 0)
       => gor.err = ErrDuplicate

\* a submission is refused as a duplicate after the first pipeline of the
\* id has completed and its entry has left the registry
C7_Witness ==
  /\ gor.op \in {"RunSync", "RunAsync"}
  /\ gor.p = 0
  /\ gor.err = ErrDuplicate
  /\ AdmittedSlots(gor.id) # {}
  /\ rt.pipelines[gor.id] = 0
  /\ \A s \in AdmittedSlots(gor.id) : pipe[s].pc = "gone"

\* C8: when the last call, Runtime.Cancel(id), has returned nil for a
\* pipeline submitted with RunAsync, the pipeline's status is CANCELLED and
\* its run context is cancelled
C8_CancelNilCancels ==
  (gor.op = "Cancel" /\ gor.err = ErrNil /\ pipe[gor.p].mode = "async")
  => /\ pipe[gor.p].status = StatusCancelled
     /\ pipe[gor.p].runCancelled

\* C9: an asynchronous run whose run context Cancel has cancelled while it
\* was running closes its Done channel, and from the cancellation on no
\* callback carries out an iteration of node work or notifies
\* pipeline-node-start
C9_CancelEndsRun ==
  /\ \A s \in Slots :
       (pipe[s].mode = "async" /\ pipe[s].pc = "running"
        /\ pipe[s].runCancelled)
       ~> (pipe[s].doneChan = "closed")
  /\ [][\A s \in Slots :
          (pipe[s].mode = "async" /\ pipe[s].runCancelled)
          => /\ \A n \in NodeIds : wk'[s][n].i = wk[s][n].i
             /\ \A k \in 1..Len(pipe'[s].events) :
                  k > Len(pipe[s].events)
                  => pipe'[s].events[k][1] # PipelineNodeStart]_vars

\* Cancel has cancelled an asynchronous run in the middle of a node's work,
\* and the Done channel is closed
C9_Witness ==
  \E s \in Slots, n \in NodeIds :
    /\ pipe[s].mode = "async"
    /\ pipe[s].runCancelled
    /\ pipe[s].doneChan = "closed"
    /\ wk[s][n].st = "done"
    /\ wk[s][n].i > 0
    /\ wk[s][n].i < WorkIters

EventCount(s, e) == CountIn(pipe[s].events, <<e, "">>)

\* C11: the listener of a pipeline whose Run has started has handled
\* exactly one pipeline-start, before every other event; it has handled no
\* pipeline-finish while Run is in progress and exactly one once Run has
\* returned, and every pipeline-node-start and pipeline-node-finish comes
\* before it
C11_StartAndFinishBracket ==
  \A s \in Slots :
    (pipe[s].listener /\ pipe[s].pc \in {"running", "finished", "gone"})
    => /\ EventCount(s, PipelineStart) = 1
       /\ pipe[s].events[1] = <<PipelineStart, "">>
       /\ EventCount(s, PipelineFinish) = (IF Returned(s) THEN 1 ELSE 0)
       /\ \A i, j \in 1..Len(pipe[s].events) :
            (/\ pipe[s].events[i] = <<PipelineFinish, "">>
             /\ pipe[s].events[j][1] \in {PipelineNodeStart,
                                          PipelineNodeFinish})
            => j < i

\* a run with a listener has returned the edge-evaluation error after the
\* events of its start node, and the callback dispatched before the error
\* has returned too
C11_Witness ==
  \E s \in Slots :
    /\ pipe[s].listener
    /\ Returned(s)
    /\ pipe[s].err = ErrEval
    /\ StartThenFinish(s, "a")
    /\ wk[s]["b"].st = "done"
    /\ EventCount(s, PipelineFinish) = 1

\* C12: the Done channel of a run is closed exactly when Run has returned:
\* then Traversal has returned, pipeline-finish has been handled, and what
\* Run returned is what Traversal returned; a closed channel stays closed
\* and is closed from the open channel Run made
C12_DoneClosedOnReturn ==
  /\ [](\A s \in Slots :
          /\ Returned(s) <=> pipe[s].doneChan = "closed"
          /\ pipe[s].doneChan = "closed"
             => /\ trav[s].pc = "returned"
                /\ pipe[s].err = trav[s].ret
                /\ pipe[s].listener => EventCount(s, PipelineFinish) = 1)
  /\ [][\A s \in Slots :
          /\ pipe[s].doneChan = "closed" => pipe'[s].doneChan = "closed"
          /\ (pipe[s].doneChan # "closed" /\ pipe'[s].doneChan = "closed")
             => pipe[s].doneChan = "open"]_vars

\* a run whose caller cancelled the context has returned the cancellation
\* error and closed its Done channel
C12_Witness ==
  \E s \in Slots :
    /\ pipe[s].doneChan = "closed"
    /\ callerCtx[s]
    /\ pipe[s].listener
    /\ pipe[s].err = ErrCanceled
    /\ trav[s].ret = ErrCanceled

\* ----------------------------------------- properties of the traversal
\* the Kahn layer of n in an acyclic adjacency: 0 without incoming entry,
\* else one more than the deepest parent
RECURSIVE Layer(_, _, _)
Layer(g, n, fuel) ==
  LET P == {u \in NodeIds : <<u, n>> \in AdjEdges(g)}
      L == {Layer(g, u, fuel - 1) : u \in P}
  IN IF P = {} \/ fuel = 0 THEN 0
     ELSE 1 + CHOOSE m \in L : \A k \in L : k <= m

\* C13: on an acyclic graph whose edges are all satisfied, any two nodes of
\* one Kahn layer that have been dispatched were dispatched in the same
\* errgroup
C13_FrontierOneGroup ==
  (~HasDirectedCycle(dga[1]) /\ AllSatisfied(dga[1], trav[1].env))
  => \A v, w \in NodeIds :
       (/\ wk[1][v].st # "none"
        /\ wk[1][w].st # "none"
        /\ Layer(dga[1], v, Cardinality(NodeIds))
             = Layer(dga[1], w, Cardinality(NodeIds)))
       => wk[1][v].gid = wk[1][w].gid

\* C14: once the context given to Traversal is cancelled, no node that has
\* not been dispatched is dispatched, so that no callback is invoked for a
\* node of a frontier that was not dispatched before the cancellation
C14_NoDispatchAfterCancel ==
  [][callerCtx[1]
     => \A n \in NodeIds :
          wk[1][n].st = "none" => wk'[1][n].st = "none"]_vars

\* the context of the errgroup Traversal made last is cancelled
GroupCtxDone(s) == IF trav[s].gid = 0 THEN trav[s].fctx ELSE trav[s].gctx

\* C15: once a callback has returned a non-nil error, the context of its
\* group is cancelled, no further node is dispatched, Traversal returns
\* only when no callback of the group is running, and what it returns is
\* the first such error
C15_FirstErrorReturned ==
  /\ [](trav[1].gerr # ErrNil
        => /\ GroupCtxDone(1)
           /\ trav[1].pc = "returned" => trav[1].ret = trav[1].gerr)
  /\ [][trav[1].gerr # ErrNil
        => /\ \A n \in NodeIds :
                wk[1][n].st = "none" => wk'[1][n].st = "none"
           /\ (trav[1].pc # "returned" /\ trav'[1].pc = "returned")
              => GroupBusy(1) = {}]_vars

\* the edges whose condition fails to evaluate
ErrorEdges(g, env) ==
  {e \in AdjEdges(g) : CondOf(g, e[1], e[2], env) = "error"}

\* C16: a Traversal that returns nil has visited the source of no edge
\* whose condition fails to evaluate; the target of such an edge is never
\* visited; and once Traversal has returned the evaluation error no
\* further node is dispatched
C16_EvalErrorAborts ==
  /\ [](/\ (trav[1].pc = "returned" /\ trav[1].ret = ErrNil)
           => \A e \in ErrorEdges(dga[1], trav[1].env) :
                e[1] \notin trav[1].visited
        /\ trav[1].pc # "idle"
           => \A e \in ErrorEdges(dga[1], trav[1].env) :
                /\ e[2] \notin trav[1].visited
                /\ wk[1][e[2]].st = "none"
                /\ ~Visited(1, e[2])
        /\ trav[1].ret = ErrEval
           => /\ trav[1].pc = "returned"
              /\ \E e \in ErrorEdges(dga[1], trav[1].env) :
                   e[1] \in trav[1].visited)
  /\ [][trav[1].ret = ErrEval
        => \A n \in NodeIds :
             wk[1][n].st = "none" => wk'[1][n].st = "none"]_vars

\* Traversal has returned the evaluation error in a turn of the loop in
\* which it had dispatched another neighbour before
C16_Witness ==
  /\ trav[1].pc = "returned"
  /\ trav[1].ret = ErrEval
  /\ trav[1].gid > 0
  /\ \E n \in NodeIds : wk[1][n].st # "none" /\ wk[1][n].gid = trav[1].gid
  /\ \E e \in ErrorEdges(dga[1], trav[1].env) : wk[1][e[2]].st = "none"

\* C17: when the last call, RunSync, has returned for an admitted pipeline,
\* with or without an error, the registry has no entry for the id and the
\* id is in the set of admitted ids
C17_RunSyncLeavesNoEntry ==
  (gor.op = "RunSync" /\ gor.p # 0 /\ gor.err # "pending")
  => /\ rt.pipelines[gor.id] = 0
     /\ gor.id \in rt.pipelineIds

\* the registry has no entry under the id of pipeline s
NoEntry(s) == \A id \in Ids : pipe[s].id = id => rt.pipelines[id] = 0

\* C18: after the Run of a pipeline submitted with RunAsync has returned,
\* the goroutine that ran it ends, and from then on the registry has no
\* entry for the pipeline, whether or not the reaper was started
C18_AsyncWorkerRemoves ==
  /\ \A s \in Slots :
       (pipe[s].mode = "async" /\ pipe[s].pc = "finished")
       ~> (pipe[s].pc = "gone" /\ NoEntry(s))
  /\ [](\A s \in Slots :
          (pipe[s].mode = "async" /\ pipe[s].pc = "gone") => NoEntry(s))

\* the goroutine of a cancelled asynchronous run has ended and the entry is
\* gone, with the reaper never started
C18_Witness ==
  \E s \in Slots :
    /\ pipe[s].mode = "async"
    /\ pipe[s].pc = "gone"
    /\ pipe[s].err = ErrCanceled
    /\ ~rt.background
    /\ NoEntry(s)

\* C19: no call of StopBackground panics, and once a call has returned the
\* Runtime's context is cancelled and its done channel is closed
C19_StopIdempotent ==
  \A c \in Stoppers :
    /\ stop[c] # "panic"
    /\ stop[c] = "returned" => (rt.ctxDone /\ rt.doneChan = "closed")

\* the calls of Run on the Pipeline whose Traversal has started and has not
\* returned
ActiveRuns ==
  {c \in Slots : /\ run.pc[c] = "running"
                 /\ trav[c].pc \notin {"idle", "returned"}}

\* C20: a Pipeline has at most one run active at a time: no two calls of
\* Run on it are inside Traversal at once
C20_OneActiveRun == Cardinality(ActiveRuns) <= 1

\* C21: a graph with a cycle is never handed to Run: the graph of every
\* pipeline that RunSync or RunAsync has created and stored has no directed
\* cycle, and a RunSync of a cyclic config has returned an error
C21_CycleRejected ==
  /\ \A s \in Slots : pipe[s].pc # "new" => ~HasDirectedCycle(dga[s])
  /\ (gor.op = "RunSync" /\ gor.p # 0 /\ gor.err # "pending"
      /\ HasDirectedCycle(dga[gor.p])) => gor.err # ErrNil

\* C22: the user parameters of the submitted config are in the namespace
\* of the run: a run whose config sets the parameter env evaluates its
\* conditions with that value of env
C22_ParamsInNamespace ==
  \A s \in Slots, config \in Configs :
    (/\ config.yaml
     /\ "env" \in DOMAIN config.Param
     /\ pipe[s].pc # "new"
     /\ dga[s] = BuildGraph(config)
     /\ trav[s].pc # "idle")
    => trav[s].env = config.Param["env"]

\* C23: a panic inside a node callback is converted into an error by the
\* worker: no panic leaves the worker goroutine, and no callback has
\* panicked without Traversal ending with (or going on to) an error
C23_PanicBecomesError ==
  /\ trav[1].pc # "panic"
  /\ \A n \in NodeIds : wk[1][n].st \notin {"panicked", "dead"}

\* C24: a call of Transfer whose commandChan is closed or whose ctx is
\* cancelled returns
C24_TransferReturns ==
  (ex.pc # "none" /\ (ex.closed \/ ex.ctxDone)) ~> (ex.pc = "returned")

\* the place of the first Destruction in the caller's log, 0 without one
FirstDestruction ==
  LET D == {i \in 1..Len(ex.log) : ex.log[i][1] = "Destruction"}
  IN IF D = {} THEN 0 ELSE CHOOSE i \in D : \A j \in D : i <= j

\* C25: Destruction is terminal: a Prepare that returns after a
\* Destruction returns an error, and no command is handed to the shell
\* once Destruction has returned
C25_DestructionTerminal ==
  /\ [](\A i \in 1..Len(ex.log) :
         (FirstDestruction # 0 /\ i > FirstDestruction
          /\ ex.log[i][1] = "Prepare") => ex.log[i][2] # ErrNil)
  /\ [][FirstDestruction # 0 => ex'.started = ex.started]_vars

\* C26: WithNode, WithPipeline and WithParams leave the receiver, and every
\* other context made before, unchanged: Get and All give the same for
\* every key before and after every call
C26_WithLeavesReceiver ==
  [][\A c \in Ctxs :
       /\ All(ec', c) = All(ec, c)
       /\ \A k \in AllKeys : Get(ec', c, k) = Get(ec, c, k)]_vars

\* a context with params has been the receiver of a WithParams call that
\* gave the new context a key more
C26_Witness ==
  \E c, d \in Ctxs :
    /\ c < d
    /\ ec.ctxs[c].node = ec.ctxs[d].node
    /\ ec.ctxs[c].pipeline = ec.ctxs[d].pipeline
    /\ Get(ec, c, "env").ok
    /\ ~Get(ec, c, "nodeId").ok
    /\ Get(ec, d, "nodeId").ok

\* the value the layers give the key k, the later layer winning: the
\* metadata, then the keys of the pipeline, then those of the node, then
\* the data
LayerValue(x, data, k) ==
  IF x.pipeline # NoPipeline /\ k \in DOMAIN x.pipeline.metadata
  THEN x.pipeline.metadata[k]
  ELSE IF x.pipeline # NoPipeline /\ k = "pipelineId" THEN x.pipeline.id
  ELSE IF x.pipeline # NoPipeline /\ k = "pipelineStatus"
  THEN x.pipeline.status
  ELSE IF x.node # NoNode /\ k = "nodeId" THEN x.node.id
  ELSE IF x.node # NoNode /\ k = "nodeStatus" THEN x.node.status
  ELSE data[k]

\* the keys the layers of the context hold
LayerKeys(x, data) ==
  DOMAIN data
  \cup (IF x.node # NoNode THEN {"nodeId", "nodeStatus"} ELSE {})
  \cup (IF x.pipeline # NoPipeline
        THEN {"pipelineId", "pipelineStatus"} \cup DOMAIN x.pipeline.metadata
        ELSE {})

\* C27: the map All() returned holds the keys of the three layers, and on
\* a collision the pipeline and its metadata win over the node, which wins
\* over the data
C27_AllLastWriterWins ==
  ec.all.c # 0 =>
    LET x == ec.ctxs[ec.all.c]
        data == ec.maps[x.data]
    IN /\ DOMAIN ec.all.ns = LayerKeys(x, data)
       /\ \A k \in LayerKeys(x, data) : ec.all.ns[k] = LayerValue(x, data, k)

\* All() was called on a context whose data, node and metadata all hold
\* the key nodeId
C27_Witness ==
  /\ ec.all.c # 0
  /\ LET x == ec.ctxs[ec.all.c]
     IN /\ x.node # NoNode
        /\ x.pipeline # NoPipeline
        /\ "nodeId" \in DOMAIN x.pipeline.metadata
        /\ "nodeId" \in DOMAIN ec.maps[x.data]
        /\ ec.all.ns["nodeId"] = "m"

\* C28: in the map All() returned the keys of the node win over those of
\* the pipeline and the metadata, which win over the data
C28_NodeOverPipeline ==
  ec.all.c # 0 =>
    LET x == ec.ctxs[ec.all.c]
        data == ec.maps[x.data]
    IN \A k \in DOMAIN ec.all.ns :
         ec.all.ns[k] =
           IF x.node # NoNode /\ k = "nodeId" THEN x.node.id
           ELSE IF x.node # NoNode /\ k = "nodeStatus" THEN x.node.status
           ELSE LayerValue(x, data, k)

\* the text w is the word v but for the case of its letters
SameButCase(w, v) ==
  /\ Len(w) = Len(v)
  /\ \A i \in 1..Len(v) : w[i] \in {v[i], UpperChar(v[i])}

\* C29: EvaluateBool gives false for an empty text, true for true, 1, yes
\* and on in any case, false for false, 0, no and off in any case, and
\* true for any other text, whatever whitespace is around the text
C29_BoolOfRendered ==
  tpl.called =>
    tpl.bool =
      IF tpl.core = <<>> THEN FALSE
      ELSE IF \E v \in TrueWords : SameButCase(tpl.core, v) THEN TRUE
      ELSE IF \E v \in FalseWords : SameButCase(tpl.core, v) THEN FALSE
      ELSE TRUE

\* EvaluateBool was called on the text OFF with whitespace on both sides
C29_Witness ==
  /\ tpl.called
  /\ tpl.core = <<"O", "F", "F">>
  /\ tpl.lead # <<>>
  /\ tpl.trail # <<>>
  /\ ~tpl.bool

\* C30: the context a callback is given is done only if the context given
\* to Traversal was cancelled or a callback of the same group has returned
\* an error
C30_CallbackCtxLive ==
  \A n \in NodeIds :
    (wk[1][n].st \in {"ready", "run"} /\ WorkerCtxDone(1, n))
    => \/ callerCtx[1]
       \/ (wk[1][n].gid = trav[1].gid /\ trav[1].gerr # ErrNil)

\* the sources of the incoming edges of v: the nodes whose adjacency list
\* names v
Sources(g, v) ==
  {u \in NodeIds : \E i \in 1..Len(g.graph[u]) : g.graph[u][i] = v}

\* every incoming edge of v is satisfied: the callback of its source has
\* returned and its condition is true
IncomingSatisfied(s, v) ==
  \A u \in Sources(dga[s], v) :
    /\ wk[s][u].st = "done"
    /\ CondOf(dga[s], u, v, trav[s].env) = "true"

\* C31: a node with incoming edges is dispatched, and so visited, only when
\* every incoming edge is satisfied, hence never when one of them is false;
\* once the traversal has returned nil it has been visited, once, exactly
\* when every incoming edge is satisfied; and a traversal whose callbacks
\* and conditions raise no error returns nil, whatever was left unvisited
C31_ReadyWhenAllSatisfied ==
  /\ \A v \in NodeIds :
       (wk[1][v].st # "none" /\ Sources(dga[1], v) # {})
         => IncomingSatisfied(1, v)
  /\ \A v \in NodeIds : Visited(1, v) => wk[1][v].st # "none"
  /\ (trav[1].pc = "returned" /\ trav[1].ret = ErrNil)
       => \A v \in dga[1].nodes :
            Sources(dga[1], v) # {}
              => /\ Visited(1, v) <=> IncomingSatisfied(1, v)
                 /\ calls[1][v].count <= 1
  /\ (/\ trav[1].pc = "returned"
      /\ trav[1].gerr = ErrNil
      /\ trav[1].ret # ErrNil)
     => \E e \in AdjEdges(dga[1]) :
          CondOf(dga[1], e[1], e[2], trav[1].env) = "error"

C31_Witness ==
  /\ trav[1].pc = "returned"
  /\ trav[1].ret = ErrNil
  /\ \E v \in NodeIds :
       /\ Cardinality(Sources(dga[1], v)) = 2
       /\ \E e \in dga[1].edgeMap : e.target = v /\ e.expression = ExprProd
       /\ IncomingSatisfied(1, v)
       /\ calls[1][v].count = 1

\* a false incoming edge leaves the node unvisited and the traversal
\* returns nil
C31_WitnessFalse ==
  /\ trav[1].pc = "returned"
  /\ trav[1].ret = ErrNil
  /\ \E u, v \in NodeIds :
       /\ u \in Sources(dga[1], v)
       /\ Visited(1, u)
       /\ CondOf(dga[1], u, v, trav[1].env) = "false"
       /\ ~Visited(1, v)

\* C32: no call of the listener's Handle is made with the pipeline's mutex
\* or the Runtime's mutex locked until Handle returns
C32_HandleOutsideLocks ==
  \A s \in Slots : pipe[s].events # <<>> => pipe[s].held = {}

\* C33: once Traversal has returned, whatever it returned, no callback it
\* dispatched is waiting to start or running
C33_ReturnLeavesNoCallback ==
  trav[1].pc = "returned"
  => \A n \in NodeIds : wk[1][n].st \notin {"ready", "run"}

\* C34: the channel that a call of Done() made after RunAsync returned has
\* obtained is eventually closed
C34_DoneEventuallyClosed ==
  \A s \in Slots :
    (pipe[s].got # "none")
      ~> (pipe[s].got = "chan" /\ pipe[s].doneChan = "closed")

\* C35: while the Run of a RunSync call is going on, a call of
\* Runtime.Cancel for its id can go ahead and cancel the run
C35_CancelDuringRunSync ==
  \A s \in Slots :
    (pipe[s].mode = "sync" /\ pipe[s].pc \in {"admitted", "running"})
      => ENABLED RuntimeCancel(pipe[s].id)

\* the (source, target) pairs of a set of edges
PairsOf(E) == {<<e.source, e.target>> : e \in E}

\* C36: the adjacency lists, the edge index and the lookup hold the same
\* (source, target) pairs, every pair joins two vertices of the graph, and
\* the in-degree of every vertex is the number of edges of the index that
\* end in it
C36_EdgeStructuresAgree ==
  LET g == dga[1]
      indeg == getIndegrees(g)
  IN /\ AdjEdges(g) = PairsOf(g.edges)
     /\ PairsOf(g.edges) = PairsOf(g.edgeMap)
     /\ \A e \in AdjEdges(g) \cup PairsOf(g.edges) :
          e[1] \in g.nodes /\ e[2] \in g.nodes
     /\ \A n \in g.nodes :
          indeg[n] = Cardinality({e \in PairsOf(g.edges) : e[2] = n})

\* C37: a call of RunSync or RunAsync that fails before it creates a
\* pipeline leaves the registry and the set of admitted ids as they were,
\* and after a parse or metadata failure the id is still free for a later
\* call
C37_RejectionLeavesRegistry ==
  /\ [][(/\ gor' # gor
         /\ gor'.op \in {"RunSync", "RunAsync"}
         /\ gor'.p = 0)
        => /\ rt'.pipelines = rt.pipelines
           /\ rt'.pipelineIds = rt.pipelineIds
           /\ pipe' = pipe]_vars
  /\ []((/\ gor.op \in {"RunSync", "RunAsync"}
         /\ gor.err \in {ErrParse, ErrMetadata})
        => /\ ~IdUsed(rt, gor.id)
           /\ AdmissionError(rt, gor.id, CfgSolo) = ErrNil)

\* a duplicate id was refused while the first pipeline is in the registry
C37_Witness ==
  /\ gor.op \in {"RunSync", "RunAsync"}
  /\ gor.err = ErrDuplicate
  /\ gor.p = 0
  /\ rt.pipelines[gor.id] # 0
  /\ pipe[rt.pipelines[gor.id]].pc = "running"

\* the metadata store could not be made and the id is free
C37_WitnessMetadata ==
  /\ gor.op \in {"RunSync", "RunAsync"}
  /\ gor.err = ErrMetadata
  /\ ~IdUsed(rt, gor.id)

\* C38: AddEdge returns the vertex-missing error exactly when the source or
\* the target is not a vertex of the graph, and a call that returns it
\* leaves the graph as it was
C38_MissingVertexRejected ==
  /\ [](trav[1].pc = "idle"
        => \A src, dest \in GraphNodes, x \in Exprs :
             LET r == AddEdge(dga[1], NewConditionalEdge(src, dest, x))
             IN /\ r.err = ErrVertexMissing
                     <=> (src \notin dga[1].nodes \/ dest \notin dga[1].nodes)
                /\ r.err = ErrVertexMissing => r.g = dga[1])
  /\ [][(nops' = nops + 1 /\ last' = ErrVertexMissing)
        => dga' = dga]_vars

\* AddEdge has returned vertex-missing on a graph that holds an edge
C38_Witness ==
  /\ last = ErrVertexMissing
  /\ dga[1].edges # {}
  /\ dga[1].nodes # GraphNodes

\* the places of out that hold a value of the given kind for command k
OutOf(kind, k) ==
  {i \in 1..Len(ex.out) : ex.out[i].kind = kind /\ ex.out[i].cmd = k}

KeptTransitions(c) ==
  {i \in 1..Len(c.Graph) :
     /\ c.Graph[i].From \in c.Nodes /\ c.Graph[i].To \in c.Nodes
     /\ c.Graph[i].From # "[*]" /\ c.Graph[i].To # "[*]"}

\* C40: the graph BuildGraph returns has exactly the entries of Nodes as
\* vertices; its edges, in the index, the lookup and the adjacency, are the
\* pairs From -> To of the parsed transitions whose endpoints are both
\* entries of Nodes and not the sentinel; with a Graph text that does not
\* parse it has no edge
C40_BuildGraphEdges ==
  bg.built
  => LET c == bg.config
         kept == IF c.GraphErr THEN {}
                 ELSE {<<c.Graph[i].From, c.Graph[i].To>> :
                         i \in KeptTransitions(c)}
     IN /\ dga[1].nodes = c.Nodes
        /\ PairsOf(dga[1].edges) = kept
        /\ PairsOf(dga[1].edgeMap) = kept
        /\ AdjEdges(dga[1]) = kept
        /\ c.GraphErr => \A n \in NodeIds : dga[1].graph[n] = <<>>

\* a graph built from two transitions, one kept and one that names an
\* endpoint outside Nodes
C40_Witness ==
  /\ bg.built
  /\ ~bg.config.GraphErr
  /\ Len(bg.config.Graph) = 2
  /\ Cardinality(KeptTransitions(bg.config)) = 1
  /\ \E i \in 1..2 : /\ bg.config.Graph[i].To \notin bg.config.Nodes
                     /\ bg.config.Graph[i].To # "[*]"
  /\ Cardinality(dga[1].edges) = 1

\* a graph built from a text that does not parse: vertices and no edge
C40_WitnessGarbled ==
  /\ bg.built
  /\ bg.config.GraphErr
  /\ KeptTransitions(bg.config) # {}
  /\ dga[1].nodes = {"a", "b"}
  /\ dga[1].edges = {}

====
